---------------------------- MODULE Spec2Model ----------------------------
(***************************************************************************)
(* The Intcode interpreter of day_17/src/intcode.rs as a state machine.    *)
(* The state is the fields of struct Intcode; there is one action per      *)
(* public method (supply_input, get_output, set, execute, execute_n,       *)
(* reset).  The private methods (step, decode, compute, store, get, ...)   *)
(* are operators over a record holding the fields.  A panic of the Rust    *)
(* code is the value "panic" of status: the process is gone and no method  *)
(* can be called any more.                                                 *)
(***************************************************************************)
EXTENDS Integers, Sequences, FiniteSets, TLC

(***************************************************************************)
(* Bounds of the model.                                                    *)
(***************************************************************************)
\* steps one call of execute() may take before it counts as not returning
MaxSteps == 12
\* longest tape the model lets a store grow
MaxLen == 13
\* largest absolute value of a tape cell
MaxVal == 1300
\* largest absolute value of relative_base
MaxBase == 3
\* number of values supply_input is given in one behaviour
MaxSupply == 2
\* number of values Output instructions emit in one behaviour
MaxEmit == 2
\* number of set() calls in one behaviour
MaxPatches == 1
\* largest argument of execute_n
MaxN == 2

(***************************************************************************)
(* usize is 64 bits wide in the source.  TLC's integers are 32 bits wide,  *)
(* so the modulus of the `as usize` casts is scaled down to 2^30: every    *)
(* tape of the model is far shorter, and a wrapped negative number is, as  *)
(* in the source, an index beyond the end of every tape.                   *)
(***************************************************************************)
USIZE == 1073741824

None == <<>>
Some(x) == <<x>>

\* the values the caller supplies as input
InputVals == {0, 5}
\* the value the caller patches into memory with set(): an Output opcode and
\* an address within every program
PatchVals == {4}

(***************************************************************************)
(* Programs the machine is created from.                                   *)
(***************************************************************************)
\* in a; out a; halt
ProgEcho == <<3, 0, 4, 0, 99>>
\* in a; out a; in b; out b; halt
ProgTwo == <<3, 9, 4, 9, 3, 10, 4, 10, 99>>
\* base += 2; in -> [5 + base] (beyond the end); out [5 + base]; halt
ProgRel == <<109, 2, 203, 5, 204, 5, 99>>
\* in a (immediate write target); halt
ProgImm == <<103, 0, 99>>
\* a = 1 + 1; a = (a < 5); if a != 0 skip the next halt; halt; halt
ProgArith == <<1101, 1, 1, 8, 1007, 8, 5, 8, 1005, 8, 7, 99, 99>>

Programs == {ProgEcho, ProgTwo, ProgRel, ProgImm, ProgArith}

VARIABLES
    tape,           \* Intcode.tape
    tape_init,      \* Intcode.tape_init
    pos,            \* Intcode.pos
    current,        \* Intcode.current: None or Some(instruction)
    input,          \* Intcode.input
    output,         \* Intcode.output
    finished,       \* Intcode.finished
    relative_base,  \* Intcode.relative_base
    status,         \* "ok", or "panic" once a method has panicked
    program,        \* history: the tape passed to new()
    supplied,       \* history: every value passed to supply_input, in order
    consumed,       \* history: every value an Input instruction popped, in order
    emitted,        \* history: every value an Output instruction pushed, in order
    returned,       \* history: every value get_output returned, in order
    patches,        \* history: number of set() calls
    call,           \* history: the method called last
    arg,            \* history: its arguments (a sequence)
    ret,            \* history: the bool execute/execute_n returned
    got,            \* history: the Option get_output returned
    outcome,        \* history: how the last step() of the last call ended
    steps,          \* history: number of step() calls the last call made
    before,         \* history: what held before the last call
    stepwise,       \* a second machine of the same program, fed input on demand
    inputs,         \* the input sequence both machines of SpecResume are given
    fed,            \* how many of inputs the second machine has been given
    nics,           \* Network.nics: per NIC its address, its pending messages
                    \* and every value supplied to its computer
    nat,            \* Network.nat
    potentially_idle,       \* execute_till_condition: potentially_idle
    messages,       \* execute_till_condition: messages
    break_after_delivery,   \* execute_till_condition: break_after_delivery
    seen,           \* the set the condition of part B keeps
    part,           \* which condition the loop runs with: "A" or "B"
    nic,            \* execute_till_condition: the NIC the for loop is at
    at,             \* execute_till_condition: where the loop is
    round,          \* history: the number of the loop's iteration
    sent,           \* history: every message a computer produced, with its round
    handled,        \* history: every message the delivery loop took, in order
    turns,          \* history: every NIC::execute, with what it supplied
    routine,        \* day 7: the routine that runs
    amplifiers,     \* day 7: the amplifiers created so far
    phase_settings, \* day 7: the argument of run_amplifiers(_loop)
    signal,         \* day 7: the local variable current of run_amplifiers(_loop)
    amp,            \* day 7: the amplifier the for loop is at
    stage,          \* day 7: where the routine is
    passes,         \* history: iterations of the while loop begun
    feeds           \* history: every value fed to an amplifier, and its answer

\* the addresses the caller patches with set(): the cell at pos, the cell of
\* the first operand, and the first address beyond the end of the tape
PatchIdx == {pos, pos + 1, Len(tape)}

fields == <<tape, tape_init, pos, current, input, output, finished, relative_base>>
history == <<program, supplied, consumed, emitted, returned, patches, call, arg,
             ret, got, outcome, steps, before>>
pair == <<stepwise, inputs, fed>>
network == <<nics, nat, potentially_idle, messages, break_after_delivery, seen,
             part, nic, at, round, sent, handled, turns>>
pipeline == <<routine, amplifiers, phase_settings, signal, amp, stage, passes, feeds>>
vars == <<fields, status, history, pair, network, pipeline>>

(***************************************************************************)
(* Rust's / and % on i64 truncate towards zero.                            *)
(***************************************************************************)
\* a remainder that is never negative
Rem_floor(a, b) == a % b

Rem(a, b) == IF a >= 0 THEN a % b ELSE -((-a) % b)
Div(a, b) == IF a >= 0 THEN a \div b ELSE -((-a) \div b)

\* `x as usize` for an i64 x
AsUsize(x) == IF x >= 0 THEN x ELSE USIZE + x

(***************************************************************************)
(* Operation                                                               *)
(***************************************************************************)
\* the table with the codes of LessThan and Equals exchanged
OperationOf_swapped(code) ==
    CASE code = 1 -> "Add"
      [] code = 2 -> "Multiply"
      [] code = 3 -> "Input"
      [] code = 4 -> "Output"
      [] code = 5 -> "JumpIfTrue"
      [] code = 6 -> "JumpIfFalse"
      [] code = 7 -> "Equals"
      [] code = 8 -> "LessThan"
      [] code = 9 -> "SetRelativeBase"
      [] code = 99 -> "Break"
      [] OTHER -> "Invalid"

OperationOf(code) ==
    CASE code = 1 -> "Add"
      [] code = 2 -> "Multiply"
      [] code = 3 -> "Input"
      [] code = 4 -> "Output"
      [] code = 5 -> "JumpIfTrue"
      [] code = 6 -> "JumpIfFalse"
      [] code = 7 -> "LessThan"
      [] code = 8 -> "Equals"
      [] code = 9 -> "SetRelativeBase"
      [] code = 99 -> "Break"
      [] OTHER -> "Invalid"

num_params(op) ==
    CASE op \in {"Add", "Multiply", "LessThan", "Equals"} -> 3
      [] op \in {"Input", "Output", "SetRelativeBase"} -> 1
      [] op \in {"JumpIfTrue", "JumpIfFalse"} -> 2
      [] OTHER -> 0

\* every unknown mode digit taken for position mode
ParameterOf_lenient(digit, idx) ==
    CASE digit = 1 -> [mode |-> "ImmediateAt", idx |-> idx]
      [] digit = 2 -> [mode |-> "RelativeBy", idx |-> idx]
      [] OTHER -> [mode |-> "PositionAt", idx |-> idx]

ParameterOf(digit, idx) ==
    CASE digit = 0 -> [mode |-> "PositionAt", idx |-> idx]
      [] digit = 1 -> [mode |-> "ImmediateAt", idx |-> idx]
      [] digit = 2 -> [mode |-> "RelativeBy", idx |-> idx]
      [] OTHER -> [mode |-> "Invalid", idx |-> idx]

\* the mode digits of info read most significant first
Operation_decode_reversed(op, info, p) ==
    [i \in 1..num_params(op) |->
        ParameterOf(Rem(Div(info, 10 ^ (num_params(op) - i)), 10), p + i)]

\* Operation::decode: one parameter per mode digit of info, least significant first
Operation_decode(op, info, p) ==
    [i \in 1..num_params(op) |->
        ParameterOf(Rem(Div(info, 10 ^ (i - 1)), 10), p + i)]

\* an advance that stops at the last operand
advance_short(op, p) == p + num_params(op)

\* Operation::advance
advance(op, p) == p + num_params(op) + 1

(***************************************************************************)
(* Memory                                                                  *)
(***************************************************************************)
\* a read beyond the end wrapping around to the start of the tape
get_wrapping(tp, idx) ==
    IF idx >= Len(tp) THEN (IF Len(tp) = 0 THEN 0 ELSE tp[(idx % Len(tp)) + 1])
    ELSE tp[idx + 1]

\* Intcode::get: the tape is indexed from 0, a TLA+ sequence from 1
get(tp, idx) == IF idx >= Len(tp) THEN 0 ELSE tp[idx + 1]

\* growing by allocating a fresh zeroed tape
ensure_len_clearing(tp, len) ==
    IF len >= Len(tp) THEN [i \in 1..len |-> 0] ELSE tp

\* Intcode::ensure_len
ensure_len(tp, len) ==
    IF len >= Len(tp)
    THEN [i \in 1..len |-> IF i <= Len(tp) THEN tp[i] ELSE 0]
    ELSE tp

\* position mode returning the operand cell itself
get_parameter_direct(m, param) ==
    CASE param.mode = "PositionAt" -> get(m.tape, param.idx)
      [] param.mode = "ImmediateAt" -> get(m.tape, param.idx)
      [] param.mode = "RelativeBy" ->
            get(m.tape, AsUsize(get(m.tape, param.idx) + m.relative_base))

\* relative mode leaving out the relative base
get_parameter_unbased(m, param) ==
    CASE param.mode = "PositionAt" -> get(m.tape, AsUsize(get(m.tape, param.idx)))
      [] param.mode = "ImmediateAt" -> get(m.tape, param.idx)
      [] param.mode = "RelativeBy" -> get(m.tape, AsUsize(get(m.tape, param.idx)))

get_parameter(m, param) ==
    CASE param.mode = "PositionAt" -> get(m.tape, AsUsize(get(m.tape, param.idx)))
      [] param.mode = "ImmediateAt" -> get(m.tape, param.idx)
      [] param.mode = "RelativeBy" ->
            get(m.tape, AsUsize(get(m.tape, param.idx) + m.relative_base))

(***************************************************************************)
(* Intcode::decode.  ok is FALSE where the source panics (an invalid       *)
(* opcode, an invalid parameter mode).                                     *)
(***************************************************************************)
NoInstruction == [op |-> "Invalid", params |-> <<>>]

decode(tp, p) ==
    LET opcode_full == get(tp, p)
        op == OperationOf(Rem(opcode_full, 100))
        info_params == Div(opcode_full, 100)
        params == Operation_decode(op, info_params, p)
    IN  IF op = "Invalid" \/ \E i \in 1..num_params(op) : params[i].mode = "Invalid"
        THEN [ok |-> FALSE, instruction |-> NoInstruction]
        ELSE [ok |-> TRUE, instruction |-> [op |-> op, params |-> params]]

(***************************************************************************)
(* A machine m is a record of the fields of Intcode, the status, and the   *)
(* history its steps write (consumed, emitted, outcome, steps).            *)
(***************************************************************************)
Panicked(m) == [m EXCEPT !.status = "panic", !.outcome = "panic"]

ComputeResult(kind, p, value, relative, address) ==
    [kind |-> kind, pos |-> p, value |-> value, relative |-> relative,
     address |-> address]

\* the second half of Instruction::compute: where a Store goes
StoreResult(instruction, value) ==
    LET last == instruction.params[Len(instruction.params)]
    IN  CASE last.mode = "PositionAt" -> ComputeResult("StoreAt", last.idx, value, FALSE, 0)
          [] last.mode = "RelativeBy" -> ComputeResult("StoreAt", last.idx, value, TRUE, 0)
          [] OTHER -> ComputeResult("Panic", 0, 0, FALSE, 0)

Nothing == ComputeResult("Nothing", 0, 0, FALSE, 0)
Pause == ComputeResult("Pause", 0, 0, FALSE, 0)
JumpTo(address) == ComputeResult("JumpTo", 0, 0, FALSE, address)

\* a jump that is taken when its condition does not hold
JumpWhen_inverted(condition, address) ==
    IF condition THEN Nothing ELSE JumpTo(AsUsize(address))

\* Instruction::compute, the two jumps: JumpTo(params[1] as usize) if the
\* condition on params[0] holds, Nothing otherwise
JumpWhen(condition, address) ==
    IF condition THEN JumpTo(AsUsize(address)) ELSE Nothing

\* a SetRelativeBase that assigns the operand
AddToBase_assigning(m, value) == [m EXCEPT !.relative_base = value]

\* Instruction::compute, SetRelativeBase: tape.relative_base += params[0]
AddToBase(m, value) == [m EXCEPT !.relative_base = @ + value]

(***************************************************************************)
(* Instruction::compute: the machine after the instruction's effects on    *)
(* the queues and the relative base, and the ComputeResult.                *)
(***************************************************************************)
compute(instruction, m) ==
    LET op == instruction.op
        params == [i \in 1..Len(instruction.params) |->
                      get_parameter(m, instruction.params[i])]
    IN  CASE op = "Add" ->
                [m |-> m, result |-> StoreResult(instruction, params[1] + params[2])]
          [] op = "Multiply" ->
                [m |-> m, result |-> StoreResult(instruction, params[1] * params[2])]
          [] op = "Input" ->
                IF m.input = <<>>
                THEN [m |-> m, result |-> Pause]
                ELSE [m |-> [m EXCEPT !.input = Tail(@),
                                      !.consumed = Append(@, Head(m.input))],
                      result |-> StoreResult(instruction, Head(m.input))]
          [] op = "JumpIfTrue" ->
                [m |-> m, result |-> JumpWhen(params[1] /= 0, params[2])]
          [] op = "JumpIfFalse" ->
                [m |-> m, result |-> JumpWhen(params[1] = 0, params[2])]
          [] op = "LessThan" ->
                [m |-> m,
                 result |-> StoreResult(instruction, IF params[1] < params[2] THEN 1 ELSE 0)]
          [] op = "Equals" ->
                [m |-> m,
                 result |-> StoreResult(instruction, IF params[1] = params[2] THEN 1 ELSE 0)]
          [] op = "SetRelativeBase" ->
                [m |-> AddToBase(m, params[1]), result |-> Nothing]
          [] op = "Output" ->
                [m |-> [m EXCEPT !.output = Append(@, params[1]),
                                 !.emitted = Append(@, params[1])],
                 result |-> Nothing]
          [] OTHER -> [m |-> m, result |-> ComputeResult("Panic", 0, 0, FALSE, 0)]

(***************************************************************************)
(* Intcode::store.  A negative target panics: -1 passes ensure_len(0) and  *)
(* then indexes out of bounds, anything lower asks resize for more than    *)
(* the address space.                                                      *)
(***************************************************************************)
store(m, result) ==
    LET idx_target == get(m.tape, result.pos)
                        + (IF result.relative THEN m.relative_base ELSE 0)
    IN  IF idx_target < 0
        THEN Panicked(m)
        ELSE [m EXCEPT !.tape = [ensure_len(m.tape, idx_target + 1)
                                    EXCEPT ![idx_target + 1] = result.value]]

\* a step that decodes at pos whether or not an instruction was kept
Fetch_redecoding(m) == decode(m.tape, m.pos)

\* Intcode::step, its first statement: the instruction kept by a pause, or
\* else the one decoded at pos
Fetch(m) ==
    IF m.current = None
    THEN decode(m.tape, m.pos)
    ELSE [ok |-> TRUE, instruction |-> m.current[1]]

\* a halt that also moves pos past the Break
OnBreak_advancing(m) ==
    [m EXCEPT !.finished = TRUE, !.pos = @ + 1, !.outcome = "halt"]

\* Intcode::step on Break
OnBreak(m) == [m EXCEPT !.finished = TRUE, !.outcome = "halt"]

\* a pause that also moves pos past the Input instruction
OnPause_advancing(m, instruction) ==
    [m EXCEPT !.current = Some(instruction), !.pos = @ + 2, !.outcome = "pause"]

\* Intcode::step on Pause: the instruction is kept, nothing else changes
OnPause(m, instruction) ==
    [m EXCEPT !.current = Some(instruction), !.outcome = "pause"]

\* a completed step that leaves the kept instruction in place
Completed_keeping(m, p, outcome_) ==
    [m EXCEPT !.pos = p, !.outcome = outcome_]

\* Intcode::step after a jump, a store or nothing: the new pos, no instruction kept
Completed(m, p, outcome_) ==
    [m EXCEPT !.pos = p, !.current = None, !.outcome = outcome_]

(***************************************************************************)
(* Intcode::step.  ret is what step returns.                               *)
(***************************************************************************)
step(m) ==
    LET d == Fetch(m)
        instruction == d.instruction
        n == [m EXCEPT !.steps = @ + 1]
    IN  IF ~d.ok
        THEN [m |-> Panicked(n), ret |-> FALSE]
        ELSE IF instruction.op = "Break"
        THEN [m |-> OnBreak(n), ret |-> FALSE]
        ELSE LET c == compute(instruction, n)
             IN  CASE c.result.kind = "Panic" ->
                        [m |-> Panicked(c.m), ret |-> FALSE]
                   [] c.result.kind = "Pause" ->
                        [m |-> OnPause(c.m, instruction), ret |-> FALSE]
                   [] c.result.kind = "JumpTo" ->
                        [m |-> Completed(c.m, c.result.address, "jump"), ret |-> TRUE]
                   [] c.result.kind = "StoreAt" ->
                        LET s == store(c.m, c.result)
                        IN  IF s.status = "panic"
                            THEN [m |-> s, ret |-> FALSE]
                            ELSE [m |-> Completed(s, advance(instruction.op, m.pos), "store"),
                                  ret |-> TRUE]
                   [] OTHER ->
                        [m |-> Completed(c.m, advance(instruction.op, m.pos), "nothing"),
                         ret |-> TRUE]

(***************************************************************************)
(* The model's bounds on a machine.                                        *)
(***************************************************************************)
InBounds(m) ==
    /\ Len(m.tape) <= MaxLen
    /\ \A i \in 1..Len(m.tape) : m.tape[i] >= -MaxVal /\ m.tape[i] <= MaxVal
    /\ m.relative_base >= -MaxBase /\ m.relative_base <= MaxBase
    /\ Len(m.emitted) <= MaxEmit

\* the loop of execute_n (and of execute, which has no bound of its own)
RECURSIVE Loop(_, _)
Loop(m, n) ==
    IF n = 0
    THEN m
    ELSE LET r == step(m)
         IN  IF r.ret /\ InBounds(r.m) THEN Loop(r.m, n - 1) ELSE r.m

\* a loop over 0..=n
execute_n_inclusive(m, n) == Loop(m, n + 1)

\* Intcode::execute_n
execute_n(m, n) == Loop(m, n)

\* Intcode::execute; it has returned if the last step returned false
execute(m) == Loop(m, MaxSteps)

Returned(m) == m.outcome \in {"halt", "pause", "panic"}


(***************************************************************************)
(* The public methods, on a machine record.                                *)
(***************************************************************************)
\* Intcode::new
new(tp) ==
    [tape |-> tp, tape_init |-> tp, pos |-> 0, current |-> None, input |-> <<>>,
     output |-> <<>>, finished |-> FALSE, relative_base |-> 0, status |-> "ok",
     consumed |-> <<>>, emitted |-> <<>>, outcome |-> "none", steps |-> 0]

\* a supply_input that puts the value at the front of the queue
supply_input_front(m, v) == [m EXCEPT !.input = <<v>> \o @]

\* Intcode::supply_input
supply_input(m, v) == [m EXCEPT !.input = Append(@, v)]

\* a get_output that takes the value emitted last
get_output_last(m) ==
    IF m.output = <<>>
    THEN [m |-> m, value |-> None]
    ELSE [m |-> [m EXCEPT !.output = SubSeq(@, 1, Len(@) - 1)],
          value |-> Some(m.output[Len(m.output)])]

\* Intcode::get_output: the machine afterwards and the Option returned
get_output(m) ==
    IF m.output = <<>>
    THEN [m |-> m, value |-> None]
    ELSE [m |-> [m EXCEPT !.output = Tail(@)], value |-> Some(Head(m.output))]

\* Intcode::output_avail
output_avail(m) == Len(m.output) > 0

\* Intcode::is_finished
is_finished(m) == m.finished

\* Intcode::set: indexing the Vec beyond its end panics
set(m, idx, value) ==
    IF idx < Len(m.tape)
    THEN [m EXCEPT !.tape[idx + 1] = value]
    ELSE Panicked(m)

\* a reset that does not restore the tape
reset_keeping_tape(m) == [m EXCEPT !.pos = 0, !.finished = FALSE]

\* a reset that also empties both queues
reset_clearing_queues(m) ==
    [m EXCEPT !.pos = 0, !.finished = FALSE, !.tape = m.tape_init,
              !.input = <<>>, !.output = <<>>]

\* Intcode::reset
reset(m) == [m EXCEPT !.pos = 0, !.finished = FALSE, !.tape = m.tape_init]

(***************************************************************************)
(* The state as a machine record, at the start of a call.                  *)
(***************************************************************************)
Machine ==
    [tape |-> tape, tape_init |-> tape_init, pos |-> pos, current |-> current,
     input |-> input, output |-> output, finished |-> finished,
     relative_base |-> relative_base, status |-> status, consumed |-> consumed,
     emitted |-> emitted, outcome |-> "none", steps |-> 0]

\* the machine m becomes the state
Becomes(m) ==
    /\ tape' = m.tape
    /\ tape_init' = m.tape_init
    /\ pos' = m.pos
    /\ current' = m.current
    /\ input' = m.input
    /\ output' = m.output
    /\ finished' = m.finished
    /\ relative_base' = m.relative_base
    /\ status' = m.status
    /\ consumed' = m.consumed
    /\ emitted' = m.emitted
    /\ outcome' = m.outcome
    /\ steps' = m.steps

\* the history of a call c with arguments a
Called(c, a) ==
    /\ call' = c
    /\ arg' = a
    /\ before' = [finished |-> finished, paused |-> current /= None,
                  empty |-> input = <<>>, dirty |-> tape /= tape_init,
                  longer |-> Len(tape) > Len(tape_init)]
    /\ UNCHANGED <<program, pair, network, pipeline>>

InputSeqs == UNION {[1..n -> InputVals] : n \in 0..MaxSupply}

\* no network: the variables of the network controller while a single
\* machine is driven
NetworkOff ==
    /\ nics = <<>>
    /\ nat = None
    /\ potentially_idle = FALSE
    /\ messages = <<>>
    /\ break_after_delivery = FALSE
    /\ seen = {}
    /\ part = "none"
    /\ nic = 0
    /\ at = "off"
    /\ round = 0
    /\ sent = <<>>
    /\ handled = <<>>
    /\ turns = <<>>

\* no pipeline: the variables of the amplifier routines while none runs
PipelineOff ==
    /\ routine = "none"
    /\ amplifiers = <<>>
    /\ phase_settings = <<>>
    /\ signal = 0
    /\ amp = 0
    /\ stage = "off"
    /\ passes = 0
    /\ feeds = <<>>

\* after Intcode::new(program), for a program of P; both machines of
\* SpecResume will be given the inputs I
MachineInit(P, I) ==
    /\ program \in P
    /\ tape = program
    /\ tape_init = program
    /\ pos = 0
    /\ current = None
    /\ input = <<>>
    /\ output = <<>>
    /\ finished = FALSE
    /\ relative_base = 0
    /\ status = "ok"
    /\ supplied = <<>>
    /\ consumed = <<>>
    /\ emitted = <<>>
    /\ returned = <<>>
    /\ patches = 0
    /\ call = "new"
    /\ arg = <<>>
    /\ ret = FALSE
    /\ got = None
    /\ outcome = "none"
    /\ steps = 0
    /\ before = [finished |-> FALSE, paused |-> FALSE, empty |-> TRUE,
                 dirty |-> FALSE, longer |-> FALSE]
    /\ stepwise = new(program)
    /\ inputs \in I
    /\ fed = 0

\* a single machine and no network
InitWith(P, I) == MachineInit(P, I) /\ NetworkOff /\ PipelineOff

Init == InitWith(Programs, {<<>>})

(***************************************************************************)
(* One action per public method.                                           *)
(***************************************************************************)
SupplyInput(v) ==
    /\ status = "ok"
    /\ Len(supplied) < MaxSupply
    /\ Becomes(supply_input(Machine, v))
    /\ supplied' = Append(supplied, v)
    /\ Called("supply_input", <<v>>)
    /\ UNCHANGED <<returned, patches, ret, got>>

GetOutput ==
    /\ status = "ok"
    /\ LET r == get_output(Machine)
       IN  /\ Becomes(r.m)
           /\ got' = r.value
           /\ returned' = returned \o r.value
    /\ Called("get_output", <<>>)
    /\ UNCHANGED <<supplied, patches, ret>>

Set(idx, value) ==
    /\ status = "ok"
    /\ patches < MaxPatches
    /\ Becomes(set(Machine, idx, value))
    /\ patches' = patches + 1
    /\ Called("set", <<idx, value>>)
    /\ UNCHANGED <<supplied, returned, ret, got>>

\* execute() returns only if a step returns false; the model follows it for
\* MaxSteps steps and within InBounds
Execute ==
    /\ status = "ok"
    /\ LET m == execute(Machine)
       IN  /\ Returned(m)
           /\ InBounds(m)
           /\ Becomes(m)
           /\ ret' = m.finished
    /\ Called("execute", <<>>)
    /\ UNCHANGED <<supplied, returned, patches, got>>

ExecuteN(n) ==
    /\ status = "ok"
    /\ LET m == execute_n(Machine, n)
       IN  /\ InBounds(m)
           /\ Becomes(m)
           /\ ret' = m.finished
    /\ Called("execute_n", <<n>>)
    /\ UNCHANGED <<supplied, returned, patches, got>>

Reset ==
    /\ status = "ok"
    /\ Becomes(reset(Machine))
    /\ Called("reset", <<>>)
    /\ UNCHANGED <<supplied, returned, patches, ret, got>>

(***************************************************************************)
(* Spec: a caller that supplies input, reads output, executes and resets.  *)
(* SpecPatch: a caller that also patches memory with set().                *)
(***************************************************************************)
Next ==
    \/ \E v \in InputVals : SupplyInput(v)
    \/ GetOutput
    \/ Execute
    \/ \E n \in 0..MaxN : ExecuteN(n)
    \/ Reset

Spec == Init /\ [][Next]_vars

NextPatch ==
    \/ \E v \in InputVals : SupplyInput(v)
    \/ GetOutput
    \/ \E idx \in PatchIdx, value \in PatchVals : Set(idx, value)
    \/ Execute
    \/ \E n \in 0..MaxN : ExecuteN(n)
    \/ Reset

SpecPatch == Init /\ [][NextPatch]_vars

(***************************************************************************)
(* SpecResume: two machines of one program and one input sequence.  The    *)
(* state's machine is supplied every input and then executes once.  The    *)
(* machine stepwise executes first and is supplied the next input each     *)
(* time it has paused.                                                     *)
(***************************************************************************)
\* jump back and read again while the value read is not 0
ProgLoop == <<3, 7, 4, 7, 1005, 7, 0, 99>>

ResumePrograms == Programs \cup {ProgLoop}

InitResume == InitWith(ResumePrograms, InputSeqs)

UpFrontSupply ==
    /\ call \in {"new", "supply_input"}
    /\ Len(supplied) < Len(inputs)
    /\ SupplyInput(inputs[Len(supplied) + 1])

UpFrontExecute ==
    /\ call \in {"new", "supply_input"}
    /\ Len(supplied) = Len(inputs)
    /\ Execute

StepwiseExecute ==
    /\ stepwise.outcome = "none"
    /\ LET m == execute(stepwise)
       IN  /\ Returned(m)
           /\ InBounds(m)
           /\ stepwise' = m
    /\ UNCHANGED <<fields, status, history, inputs, fed, network, pipeline>>

StepwiseSupply ==
    /\ stepwise.outcome = "pause"
    /\ fed < Len(inputs)
    /\ stepwise' = [supply_input(stepwise, inputs[fed + 1])
                        EXCEPT !.outcome = "none", !.steps = 0]
    /\ fed' = fed + 1
    /\ UNCHANGED <<fields, status, history, inputs, network, pipeline>>

NextResume == UpFrontSupply \/ UpFrontExecute \/ StepwiseExecute \/ StepwiseSupply

SpecResume == InitResume /\ [][NextResume]_vars

(***************************************************************************)
(* SpecTests: machines created from the test programs of the repository    *)
(* and from one-instruction programs covering every opcode word of Words.  *)
(* The caller supplies at most one input value, before the first call or   *)
(* when the machine has paused, and runs the machine step by step or with  *)
(* execute().                                                              *)
(***************************************************************************)
\* steps one call of execute() may take in SpecTests
TestSteps == 85
\* longest tape, largest cell value, number of outputs and largest relative
\* base of SpecTests
TestLen == 102
TestVal == 400000
TestEmit == 16
TestBase == 17

\* the values the caller of SpecTests supplies
TestVals == {7, 8, 9}

\* day_02: [0] = [0] + [0]; halt
ProgAdd == <<1, 0, 0, 0, 99>>
\* day_09 copy_myself: a program that outputs itself, counting in cell 100
ProgQuine == <<109, 1, 204, -1, 1001, 100, 1, 100, 1008, 100, 16, 101,
               1006, 101, 0, 99>>
\* day_05: in a; a = (a == [10]); out a; halt
ProgCompare == <<3, 9, 8, 9, 10, 9, 4, 9, 99, -1, 8>>
\* [7] = 2 + 3, two cells beyond the end; halt
ProgGrow == <<1101, 2, 3, 7, 99>>
\* out [20] (beyond the end); [1] = 2 + 3; an Output whose operand cell is
\* beyond the end: out [0]; then pos is beyond the end
ProgFar == <<4, 20, 1101, 2, 3, 1, 4>>
\* base = 1; the instruction w with the operand cells 7, 8, 9; halt
ProgWord(w) == <<109, 1, w, 7, 8, 9, 99, 11, 12, 13, 14>>

\* the opcodes of Operation::decode
Kinds == {1, 2, 3, 4, 5, 6, 7, 8, 9, 99}
\* mode digits of three operands, each of 0..3, and a fourth and fifth digit
Infos ==
    {d1 + 10 * d2 + 100 * d3 : d1 \in 0..3, d2 \in 0..3, d3 \in 0..3}
        \cup {1000, 3000, 30000}
\* words whose opcode is none of Kinds
InvalidWords == {0, 10, 55, 98, 100, 1100, -1, -99, -100, -101, -199}
Words == {k + 100 * i : k \in Kinds, i \in Infos} \cup InvalidWords

\* out [-1]; out [-3 + base]; halt
ProgNegRead == <<4, -1, 204, -3, 99>>
\* [-1] = 1 + 1; halt
ProgNegStore == <<1101, 1, 1, -1, 99>>
\* jump to -1; halt
ProgNegJump == <<1105, 1, -1, 99>>

\* the jump w on the condition cell z: to the Output at 4 if taken, to the
\* halt at 3 if not
ProgJump(w, z) == <<w, z, 4, 99, 104, 1, 99>>
\* JumpIfTrue and JumpIfFalse on an Immediate and on a Position condition
\* that is zero and that is not zero
JumpPrograms == {ProgJump(w, z) : w \in {1105, 1106, 1005, 1006}, z \in {0, 7}}

TestPrograms ==
    {ProgAdd, ProgQuine, ProgCompare, ProgGrow, ProgFar,
     ProgNegRead, ProgNegStore, ProgNegJump} \cup JumpPrograms
        \cup {ProgWord(w) : w \in Words}

InitTests == InitWith(TestPrograms, {<<>>})

Abs(x) == IF x < 0 THEN -x ELSE x

TestInBounds(m) ==
    /\ Len(m.tape) <= TestLen
    /\ \A i \in 1..Len(m.tape) : Abs(m.tape[i]) <= TestVal
    /\ Len(m.emitted) <= TestEmit
    /\ Abs(m.relative_base) <= TestBase

\* the loop of execute_n and execute: step until step() returns false, at
\* most n times.  The n iterations are evaluated as two halves, which keeps
\* the evaluation shallow; a half that has returned ends the loop.
RECURSIVE Run(_, _)
Run(m, n) ==
    IF n = 0 THEN m
    ELSE IF n = 1 THEN step(m).m
    ELSE LET h == Run(m, n \div 2)
         IN  IF Returned(h) \/ ~TestInBounds(h) THEN h
             ELSE Run(h, n - (n \div 2))

TestSupply(v) ==
    /\ supplied = <<>>
    /\ call = "new" \/ outcome = "pause"
    /\ SupplyInput(v)

\* execute_n(1)
TestStep ==
    /\ status = "ok"
    /\ LET m == Run(Machine, 1)
       IN  /\ TestInBounds(m)
           /\ Becomes(m)
           /\ ret' = m.finished
    /\ Called("execute_n", <<1>>)
    /\ UNCHANGED <<supplied, returned, patches, got>>

TestExecute ==
    /\ status = "ok"
    /\ LET m == Run(Machine, TestSteps)
       IN  /\ Returned(m)
           /\ TestInBounds(m)
           /\ Becomes(m)
           /\ ret' = m.finished
    /\ Called("execute", <<>>)
    /\ UNCHANGED <<supplied, returned, patches, got>>

NextTests ==
    \/ \E v \in TestVals : TestSupply(v)
    \/ TestStep
    \/ TestExecute

SpecTests == InitTests /\ [][NextTests]_vars

(***************************************************************************)
(* SpecReads: the caller of SpecPatch with a program that reads beyond the *)
(* end of the tape.                                                        *)
(***************************************************************************)
ReadPrograms == {ProgFar}

InitReads == InitWith(ReadPrograms, {<<>>})

SpecReads == InitReads /\ [][NextPatch]_vars

(***************************************************************************)
(* SpecBase: the caller of SpecPatch with a program that moves the         *)
(* relative base.                                                          *)
(***************************************************************************)
\* base += 1; halt
ProgBase == <<109, 1, 99>>

InitBase == InitWith({ProgBase}, {<<>>})

SpecBase == InitBase /\ [][NextPatch]_vars

(***************************************************************************)
(* SpecPending: a caller that supplies input, patches memory with set()    *)
(* and runs the machine one step at a time.                                *)
(***************************************************************************)
PendingPrograms == {ProgEcho, ProgRel}

InitPending == InitWith(PendingPrograms, {<<>>})

NextPending ==
    \/ \E v \in InputVals : SupplyInput(v)
    \/ \E idx \in PatchIdx, value \in PatchVals : Set(idx, value)
    \/ ExecuteN(1)

SpecPending == InitPending /\ [][NextPending]_vars

(***************************************************************************)
(* Properties.                                                             *)
(***************************************************************************)
\* the last call made at least one step
Stepping == call = "execute" \/ (call = "execute_n" /\ arg[1] > 0)

\* the next step handles an Input instruction and the input queue is empty
PauseCase ==
    /\ status = "ok"
    /\ input = <<>>
    /\ Fetch(Machine).ok
    /\ Fetch(Machine).instruction.op = "Input"

\* C1: a step that handles an Input instruction while the input queue is
\* empty pauses: it keeps the instruction as the pending one and leaves pos,
\* the tape, the relative base, both queues and finished unchanged; so does a
\* repeated call while the queue is still empty (the pending instruction is
\* then the one already kept).
C1_PauseChangesNothing ==
    [][(PauseCase /\ Stepping')
        => /\ outcome' = "pause"
           /\ steps' = 1
           /\ current' = Some(Fetch(Machine).instruction)
           /\ UNCHANGED <<tape, tape_init, pos, relative_base, input, output,
                          finished, status, consumed, emitted>>]_vars

\* execute() was repeated on a paused machine whose queue was still empty
C1_Witness ==
    /\ call = "execute"
    /\ before.paused
    /\ before.empty
    /\ outcome = "pause"
    /\ current /= None
    /\ Len(tape) > Len(tape_init)

\* the machine supplied every input up front has executed
UpFrontDone == call = "execute"

\* the machine supplied on demand has halted or panicked, or has paused with
\* no input left to give it
StepwiseDone ==
    \/ stepwise.outcome \in {"halt", "panic"}
    \/ stepwise.outcome = "pause" /\ fed = Len(inputs)

\* C2: for a program and an input sequence, the machine that is supplied all
\* inputs and executes once ends with the same tape, pos, relative base,
\* finished flag and output sequence as the machine that executes, and is
\* supplied the next input and executes again after every pause.
C2_PauseResumeEquivalence ==
    (UpFrontDone /\ StepwiseDone)
        => /\ tape = stepwise.tape
           /\ pos = stepwise.pos
           /\ relative_base = stepwise.relative_base
           /\ is_finished(Machine) = is_finished(stepwise)
           /\ emitted = stepwise.emitted
           /\ output = stepwise.output
           /\ status = stepwise.status

\* both machines have finished a program that read two inputs, the second
\* machine pausing for each
C2_Witness ==
    /\ UpFrontDone
    /\ StepwiseDone
    /\ fed = 2
    /\ stepwise.consumed = inputs
    /\ finished
    /\ stepwise.finished
    /\ Len(emitted) = 2

\* where a parameter used as write target points: Intcode::store
WriteAddress(param) ==
    get(tape, param.idx) + (IF param.mode = "RelativeBy" THEN relative_base ELSE 0)

\* the tape after value is written at address a, grown with zeros if needed
Written(tp, a, value) ==
    [i \in 1..(IF a + 1 > Len(tp) THEN a + 1 ELSE Len(tp)) |->
        IF i = a + 1 THEN value ELSE IF i <= Len(tp) THEN tp[i] ELSE 0]

\* the pending instruction has a write target: a Position or Relative
\* parameter with an address that is not negative
PendingWritable ==
    /\ current[1].params[1].mode \in {"PositionAt", "RelativeBy"}
    /\ WriteAddress(current[1].params[1]) >= 0

C4_ResetRestoresMemory ==
    call = "reset" => tape = program /\ pos = 0 /\ ~is_finished(Machine)

\* reset() was called on a halted machine whose tape had been patched and had
\* grown
C4_Witness ==
    /\ call = "reset"
    /\ before.finished
    /\ before.dirty
    /\ before.longer
    /\ patches > 0
    /\ consumed /= <<>>

\* C5: after reset() the relative base is 0.
C5_ResetClearsRelativeBase == call = "reset" => relative_base = 0

\* C6: after reset() no instruction is pending.
C6_ResetClearsPending == call = "reset" => current = None

\* C7: the values the Input instructions have consumed, followed by the ones
\* still queued, are the values supplied, in order; supply_input appends its
\* value to the input queue and changes nothing else.
C7_InputFifo ==
    [][/\ consumed' \o input' = supplied'
       /\ call' = "supply_input"
            => /\ input' = Append(input, arg'[1])
               /\ UNCHANGED <<tape, tape_init, pos, current, output, finished,
                              relative_base, status, consumed, emitted>>]_vars

\* two different values were supplied while the machine was paused and both
\* have been consumed
C7_Witness ==
    /\ Len(consumed) = 2
    /\ consumed[1] /= consumed[2]
    /\ consumed = supplied
    /\ before.paused
    /\ Len(emitted) = 2

C9_HaltedIsTerminal ==
    [][(status = "ok" /\ is_finished(Machine) /\ call' /= "reset")
        => /\ finished'
           /\ status' = "ok"
           /\ UNCHANGED <<tape, pos, relative_base, current, consumed, emitted>>
           /\ Stepping' => outcome' = "halt" /\ steps' = 1]_vars

\* execute() was called on a halted machine with input waiting
C9_Witness ==
    /\ call = "execute"
    /\ before.finished
    /\ ~before.empty
    /\ finished
    /\ input /= <<>>

\* the machine is paused: the input queue is empty and the Input instruction
\* at pos is the pending instruction
PausedAtPos ==
    /\ input = <<>>
    /\ decode(tape, pos).ok
    /\ decode(tape, pos).instruction.op = "Input"
    /\ current = Some(decode(tape, pos).instruction)

\* C10: execute() returns true exactly when its last step decoded a Break,
\* and false exactly when the machine is paused.
C10_ExecuteReturn ==
    (call = "execute" /\ status = "ok")
        => /\ ret <=> outcome = "halt"
           /\ ~ret <=> PausedAtPos

(***************************************************************************)
(* Properties of SpecTests.                                                *)
(***************************************************************************)
\* the machine is as new() made it: nothing was called but supply_input
Fresh == call \in {"new", "supply_input"} /\ outcome = "none"

\* the call made is execute_n(1): exactly one step
OneStep == call = "execute_n" /\ arg = <<1>>

\* C11 as stated: for the program 1,0,0,0,99, after one step cell 0 holds 2
\* and the machine is halted.
C11_OneStepHalts ==
    [][(program = ProgAdd /\ Fresh /\ OneStep')
        => tape'[1] = 2 /\ is_finished(Machine)']_vars

\* C11: for the program 1,0,0,0,99, one step of the new machine executes the
\* Add: cell 0 holds 2, pos is 4 and the machine is not halted yet.  The step
\* after it decodes the 99 and halts the machine, changing nothing else; so
\* execute() on the new machine makes two steps and returns with cell 0
\* holding 2 and the machine halted.
C11_AddThenHalt ==
    [][(program = ProgAdd /\ status = "ok")
        => /\ (Fresh /\ OneStep')
                => /\ tape' = <<2, 0, 0, 0, 99>>
                   /\ pos' = 4
                   /\ ~finished'
                   /\ ~ret'
           /\ (~Fresh /\ ~finished /\ OneStep')
                => /\ finished'
                   /\ ret'
                   /\ tape' = <<2, 0, 0, 0, 99>>
                   /\ pos' = pos
           /\ (Fresh /\ call' = "execute")
                => /\ finished'
                   /\ ret'
                   /\ steps' = 2
                   /\ tape' = <<2, 0, 0, 0, 99>>]_vars

\* the second step of the program 1,0,0,0,99 has halted the machine
C11_Witness ==
    /\ program = ProgAdd
    /\ OneStep
    /\ before.dirty
    /\ ~before.finished
    /\ finished
    /\ tape[1] = 2

\* s is the first Len(s) terms of t
IsPrefix(s, t) == Len(s) <= Len(t) /\ s = SubSeq(t, 1, Len(s))

\* C12: the machine of the program 109,1,204,-1,1001,100,1,100,1008,100,16,
\* 101,1006,101,0,99, given no input, never pauses and never panics; what it
\* has output is at every moment the first terms of the program, in order;
\* execute() returns with the machine halted, and once it is halted its
\* output is the 16 values of the program itself.
C12_Quine ==
    (program = ProgQuine /\ supplied = <<>>)
        => /\ status = "ok"
           /\ outcome /= "pause"
           /\ current = None
           /\ IsPrefix(emitted, ProgQuine)
           /\ output = emitted
           /\ call = "execute" => (finished /\ ret)
           /\ finished => (emitted = ProgQuine /\ Len(emitted) = 16)

\* execute() ran the program to its halt and it has output itself
C12_Witness ==
    /\ program = ProgQuine
    /\ supplied = <<>>
    /\ call = "execute"
    /\ ~before.dirty
    /\ finished
    /\ emitted = ProgQuine

\* C13: the machine of the program 3,9,8,9,10,9,4,9,99,-1,8 never panics;
\* execute() after the single input v was supplied returns with the machine
\* halted; and a halted machine has consumed v and output exactly one value,
\* 1 if v = 8 and 0 otherwise.
C13_Comparison ==
    program = ProgCompare
        => /\ status = "ok"
           /\ Len(emitted) <= 1
           /\ (call = "execute" /\ supplied /= <<>>) => (finished /\ ret)
           /\ finished
                => /\ Len(supplied) = 1
                   /\ consumed = supplied
                   /\ emitted = <<IF supplied[1] = 8 THEN 1 ELSE 0>>
                   /\ output = emitted

\* execute() ran the program on the input 8 and on another input
C13_Witness ==
    /\ program = ProgCompare
    /\ call = "execute"
    /\ finished
    /\ \/ supplied = <<8>> /\ emitted = <<1>>
       \/ supplied = <<7>> /\ emitted = <<0>>

\* the instruction the next step handles
NextInstruction == Fetch(Machine).instruction

\* the last parameter of the instruction the next step handles
Target == NextInstruction.params[Len(NextInstruction.params)]

\* the next step stores: its instruction is one that writes, an Input has a
\* value to read, and the write target is a Position or Relative parameter
\* with an address that is not negative
StoreCase ==
    /\ status = "ok"
    /\ Fetch(Machine).ok
    /\ NextInstruction.op \in {"Add", "Multiply", "Input", "LessThan", "Equals"}
    /\ NextInstruction.op = "Input" => input /= <<>>
    /\ Target.mode \in {"PositionAt", "RelativeBy"}
    /\ WriteAddress(Target) >= 0

\* C14: a step that stores a value at address a at or beyond the length of
\* the tape makes the length a + 1, fills the cells from the old end up to a
\* with 0, sets cell a to the value and leaves every older cell unchanged; a
\* store at an address below the length changes that cell only and keeps the
\* length.
C14_StoreGrowth ==
    [][(StoreCase /\ OneStep')
        => LET a == WriteAddress(Target)
               value == compute(NextInstruction, Machine).result.value
           IN  /\ status' = "ok"
               /\ tape'[a + 1] = value
               /\ a >= Len(tape)
                    => /\ Len(tape') = a + 1
                       /\ \A i \in 1..Len(tape) : tape'[i] = tape[i]
                       /\ \A i \in (Len(tape) + 1)..a : tape'[i] = 0
               /\ a < Len(tape)
                    => /\ Len(tape') = Len(tape)
                       /\ \A i \in 1..Len(tape) : i /= a + 1 => tape'[i] = tape[i]]_vars

\* one step stored 2 + 3 at address 7 of the 5 cells 1101,2,3,7,99, two cells
\* beyond the end
C14_Witness ==
    /\ program = ProgGrow
    /\ OneStep
    /\ outcome = "store"
    /\ ~before.longer
    /\ tape = <<1101, 2, 3, 7, 99, 0, 0, 5>>

(***************************************************************************)
(* Properties of SpecReads.                                                *)
(***************************************************************************)
\* the address whose cell is the value of a parameter
OperandAddress(param) ==
    CASE param.mode = "ImmediateAt" -> param.idx
      [] param.mode = "PositionAt" -> get(tape, param.idx)
      [] param.mode = "RelativeBy" -> get(tape, param.idx) + relative_base

\* the next step handles an Output instruction
OutputCase ==
    /\ status = "ok"
    /\ Fetch(Machine).ok
    /\ NextInstruction.op = "Output"

\* C15: reading at or beyond the end of the tape yields 0 and changes no
\* cell and not the length.  An Output whose operand lies beyond the end
\* emits 0; an Output in position mode whose operand cell lies beyond the end
\* takes 0 for the address and emits cell 0; a step with pos beyond the end
\* decodes the word 0, which is no instruction, and panics.  The tape changes
\* only in a step that stores, in set() and in reset(): supply_input,
\* get_output and every step that does not store leave it as it is.
C15_ReadBeyondEnd ==
    [][/\ (status = "ok" /\ call' \in {"supply_input", "get_output"})
            => tape' = tape
       /\ (status = "ok" /\ OneStep' /\ ~StoreCase)
            => tape' = tape
       /\ (status = "ok" /\ OneStep' /\ current = None /\ pos >= Len(tape))
            => status' = "panic" /\ tape' = tape
       /\ (OutputCase /\ OneStep' /\ OperandAddress(Target) >= Len(tape))
            => emitted' = Append(emitted, 0) /\ tape' = tape
       /\ (OutputCase /\ OneStep' /\ Target.mode = "PositionAt"
                /\ Target.idx >= Len(tape))
            => emitted' = Append(emitted, tape[1]) /\ tape' = tape]_vars

\* one step of 4,20,1101,2,3,1,4 handled the Output of cell 20 of 7 cells
C15_Witness ==
    /\ program = ProgFar
    /\ OneStep
    /\ ~before.dirty
    /\ tape = ProgFar
    /\ emitted = <<0>>
    /\ pos = 2

(***************************************************************************)
(* Addressing modes, checked in SpecTests.                                 *)
(***************************************************************************)
\* the cell at address a; a cell outside the tape reads as 0
Read(a) == IF a >= 0 /\ a < Len(tape) THEN tape[a + 1] ELSE 0

\* the value of an operand at cell param.idx: Position reads the cell its
\* cell names, Immediate reads its cell, Relative reads the cell its cell plus
\* the relative base names
Operand(param) ==
    CASE param.mode = "PositionAt" -> Read(Read(param.idx))
      [] param.mode = "ImmediateAt" -> Read(param.idx)
      [] param.mode = "RelativeBy" -> Read(Read(param.idx) + relative_base)

\* the cell a write target at cell param.idx names
TargetCell(param) ==
    CASE param.mode = "PositionAt" -> Read(param.idx)
      [] param.mode = "RelativeBy" -> Read(param.idx) + relative_base

\* C16: for an operand at cell a and relative base b, a read yields
\* read(read(a)) in Position mode, read(a) in Immediate mode and
\* read(read(a) + b) in Relative mode; a store writes cell read(a) in
\* Position mode and cell read(a) + b in Relative mode.  Seen in one step of
\* Output (the value emitted), SetRelativeBase (the value added to the base),
\* Add (the two values added and the cell written) and Input (the cell
\* written).
C16_AddressingModes ==
    [][/\ (OutputCase /\ OneStep')
            => emitted' = Append(emitted, Operand(Target))
       /\ (status = "ok" /\ Fetch(Machine).ok /\ OneStep'
                /\ NextInstruction.op = "SetRelativeBase")
            => relative_base' = relative_base + Operand(Target)
       /\ (StoreCase /\ OneStep' /\ NextInstruction.op = "Add")
            => tape' = Written(tape, TargetCell(Target),
                               Operand(NextInstruction.params[1])
                                    + Operand(NextInstruction.params[2]))
       /\ (StoreCase /\ OneStep' /\ NextInstruction.op = "Input")
            => tape' = Written(tape, TargetCell(Target), Head(input))]_vars

\* with relative base 1, one step of the Add 20001,7,8,9 has read cells 7 and
\* 8 in Position mode (11 and 12) and stored the sum in Relative mode at
\* cell 9 + 1
C16_Witness ==
    /\ program = ProgWord(20001)
    /\ OneStep
    /\ outcome = "store"
    /\ relative_base = 1
    /\ pos = 6
    /\ tape[11] = 23

(***************************************************************************)
(* Decoding, checked in SpecTests.                                         *)
(***************************************************************************)
\* the opcode word the next step decodes
Word == get(tape, pos)

\* the kind of a word: its last two decimal digits, with the sign of the word
KindOf(w) == IF w >= 0 THEN w % 100 ELSE -((-w) % 100)

Recognised(w) == KindOf(w) \in Kinds

\* the number of operands of a recognised kind
OperandCount(k) ==
    CASE k \in {1, 2, 7, 8} -> 3
      [] k \in {5, 6} -> 2
      [] k \in {3, 4, 9} -> 1
      [] k = 99 -> 0

\* the i-th least significant decimal digit of w / 100, for a w >= 0
ModeDigit(w, i) == ((w \div 100) \div (10 ^ (i - 1))) % 10

ModeOf(d) ==
    CASE d = 0 -> "PositionAt"
      [] d = 1 -> "ImmediateAt"
      [] d = 2 -> "RelativeBy"

\* the next step decodes a word of a recognised kind whose operands all have
\* a mode digit of 0..2
DecodeCase ==
    /\ status = "ok"
    /\ current = None
    /\ Recognised(Word)
    /\ \A i \in 1..OperandCount(KindOf(Word)) : ModeDigit(Word, i) \in 0..2

\* the operands the claim gives the word at pos
ExpectedParams ==
    [i \in 1..OperandCount(KindOf(Word)) |->
        [mode |-> ModeOf(ModeDigit(Word, i)), idx |-> pos + i]]

\* C17: a step that decodes a word w of a recognised kind gets an
\* instruction of n operands, n by the kind (3 for Add, Multiply, LessThan,
\* Equals; 2 for the jumps; 1 for Input, Output, SetRelativeBase; 0 for
\* Halt); operand i is at cell pos + i and has the mode of the i-th least
\* significant digit of w / 100 (0 Position, 1 Immediate, 2 Relative).  An
\* instruction kept by a pause is that instruction.
C17_ModeDigits ==
    [][(DecodeCase /\ OneStep')
        => /\ Fetch(Machine).ok
           /\ Len(NextInstruction.params) = OperandCount(KindOf(Word))
           /\ NextInstruction.params = ExpectedParams
           /\ outcome' = "pause"
                => /\ current' /= None
                   /\ current'[1].params = ExpectedParams]_vars

\* with relative base 1, one step of the Add 20101,7,8,9 (modes Immediate,
\* Position, Relative) has stored 7 + 12 at cell 9 + 1
C17_Witness ==
    /\ program = ProgWord(20101)
    /\ OneStep
    /\ outcome = "store"
    /\ pos = 6
    /\ tape[11] = 19

\* the call made has made at least one step: execute_n(1) or execute()
Stepped == OneStep \/ call = "execute"

\* the next step decodes a word whose kind is none of 1..9 and 99
InvalidOpcodeCase ==
    /\ status = "ok"
    /\ current = None
    /\ ~Recognised(Word)

\* C18: a step that decodes a word whose kind is not one of 1..9 and 99
\* panics, and so does the call: it is the only step the call makes, the
\* machine can do nothing afterwards, and the tape, pos, the relative base,
\* both queues, finished and the pending instruction are as before the call.
\* The words decoded include 0 read at a pos beyond the end of the tape, and
\* negative words (-99 and -199 are not the opcode 99, -101 is not 1).
C18_InvalidOpcode ==
    [][(InvalidOpcodeCase /\ Stepped')
        => /\ status' = "panic"
           /\ steps' = 1
           /\ UNCHANGED <<tape, pos, relative_base, input, output, finished,
                          current, consumed, emitted>>]_vars

\* the machine of 109,1,-99,... has panicked on the word -99 at pos 2
C18_Witness ==
    /\ program = ProgWord(-99)
    /\ Stepped
    /\ status = "panic"
    /\ steps = 1
    /\ pos = 2
    /\ ~finished
    /\ tape = program

\* some decimal digit of x >= 0 is none of 0, 1, 2
RECURSIVE HasBadDigit(_)
HasBadDigit(x) == x > 0 /\ (x % 10 > 2 \/ HasBadDigit(x \div 10))

\* C19 as stated: a step that decodes a word w of a recognised kind whose
\* w / 100 has a decimal digit other than 0, 1, 2 panics before it changes
\* anything.
C19_AnyBadDigit ==
    [][(status = "ok" /\ current = None /\ Recognised(Word)
            /\ HasBadDigit(Word \div 100) /\ Stepped')
        => /\ status' = "panic"
           /\ steps' = 1
           /\ UNCHANGED <<tape, pos, relative_base, input, output, finished,
                          current, consumed, emitted>>]_vars

\* the next step decodes a word of a recognised kind with n operands, and
\* one of the n least significant digits of w / 100 is none of 0, 1, 2
BadModeCase ==
    /\ status = "ok"
    /\ current = None
    /\ Recognised(Word)
    /\ \E i \in 1..OperandCount(KindOf(Word)) : ModeDigit(Word, i) > 2

\* C19: a step that decodes a word w of a recognised kind with n operands
\* panics before it changes anything if one of the n least significant
\* digits of w / 100, the mode digits of the operands, is none of 0, 1, 2.
\* The digits above the n-th are not looked at: with the n mode digits in
\* 0..2 the word is decoded whatever the higher digits are, and a Halt word
\* (n = 0) halts the machine whatever w / 100 is.
C19_BadModeDigit ==
    [][/\ (BadModeCase /\ Stepped')
            => /\ status' = "panic"
               /\ steps' = 1
               /\ UNCHANGED <<tape, pos, relative_base, input, output,
                              finished, current, consumed, emitted>>
       /\ (DecodeCase /\ HasBadDigit(Word \div 100) /\ OneStep')
            => /\ Fetch(Machine).ok
               /\ NextInstruction.params = ExpectedParams
               /\ KindOf(Word) = 99 => (finished' /\ status' = "ok")]_vars

\* the machine of 109,1,304,... has panicked on the Output word 304 at pos 2
C19_Witness ==
    /\ program = ProgWord(304)
    /\ Stepped
    /\ status = "panic"
    /\ steps = 1
    /\ pos = 2
    /\ emitted = <<>>
    /\ tape = program

\* the next step handles a storing instruction whose last operand is in
\* Immediate mode
ImmediateTargetCase ==
    /\ status = "ok"
    /\ Fetch(Machine).ok
    /\ NextInstruction.op \in {"Add", "Multiply", "Input", "LessThan", "Equals"}
    /\ Target.mode = "ImmediateAt"

\* C20: a step that handles an Add, Multiply, Input, LessThan or Equals whose
\* last operand is in Immediate mode panics, whatever the input queue holds:
\* no cell is written, no input is consumed and no instruction is pending
\* afterwards.
C20_ImmediateTarget ==
    [][(ImmediateTargetCase /\ Stepped')
        => /\ status' = "panic"
           /\ tape' = tape
           /\ input' = input
           /\ consumed' = consumed
           /\ current' = None]_vars

(***************************************************************************)
(* Negative addresses, checked in SpecTests.                               *)
(***************************************************************************)
\* the parameters the next instruction reads as operands: all of them but
\* the write target of a storing instruction
ReadParams ==
    IF NextInstruction.op \in {"Add", "Multiply", "LessThan", "Equals"}
    THEN {NextInstruction.params[1], NextInstruction.params[2]}
    ELSE IF NextInstruction.op = "Input" THEN {}
    ELSE {NextInstruction.params[i] : i \in 1..Len(NextInstruction.params)}

\* the next instruction is a jump and its condition holds
JumpTaken ==
    \/ /\ NextInstruction.op = "JumpIfTrue"
       /\ Operand(NextInstruction.params[1]) /= 0
    \/ /\ NextInstruction.op = "JumpIfFalse"
       /\ Operand(NextInstruction.params[1]) = 0

\* the next step resolves a negative address: of an operand it reads in
\* Position or Relative mode, of its store target, or of its jump target
NegativeCase ==
    /\ status = "ok"
    /\ Fetch(Machine).ok
    /\ \/ \E p \in ReadParams :
            p.mode \in {"PositionAt", "RelativeBy"} /\ OperandAddress(p) < 0
       \/ /\ NextInstruction.op \in {"Add", "Multiply", "Input", "LessThan", "Equals"}
          /\ NextInstruction.op = "Input" => input /= <<>>
          /\ Target.mode \in {"PositionAt", "RelativeBy"}
          /\ WriteAddress(Target) < 0
       \/ JumpTaken /\ Operand(NextInstruction.params[2]) < 0

\* C21: a step that resolves a negative address, of an operand read in
\* Position or Relative mode, of a store target or of a jump target, panics
\* instead of reading, writing or continuing: the tape, pos and the output
\* are as before.
C21_NegativeAddress ==
    [][(NegativeCase /\ Stepped')
        => /\ status' = "panic"
           /\ steps' = 1
           /\ UNCHANGED <<tape, pos, emitted, output, finished>>]_vars

(***************************************************************************)
(* Properties of SpecBase.                                                 *)
(***************************************************************************)
\* the next step handles a SetRelativeBase instruction
SetBaseCase ==
    /\ status = "ok"
    /\ Fetch(Machine).ok
    /\ NextInstruction.op = "SetRelativeBase"

\* C22: the relative base of a new machine is 0.  One step of a
\* SetRelativeBase instruction adds the value of its operand to it and
\* leaves the tape as it is; one step of any other instruction, and
\* supply_input, get_output and set(), leave the relative base as it is.
C22_RelativeBase ==
    [][/\ call = "new" => relative_base = 0
       /\ (SetBaseCase /\ OneStep')
            => /\ relative_base' = relative_base + Operand(Target)
               /\ tape' = tape
               /\ status' = "ok"
       /\ (status = "ok" /\ ~SetBaseCase /\ OneStep')
            => relative_base' = relative_base
       /\ (status = "ok" /\ call' \in {"supply_input", "get_output", "set"})
            => relative_base' = relative_base]_vars

\* after a reset, one step of 109,1,99 has added 1 to the relative base
\* for the second time
C22_Witness ==
    /\ program = ProgBase
    /\ OneStep
    /\ ~before.finished
    /\ tape = ProgBase
    /\ pos = 2
    /\ relative_base = 2
    /\ outcome = "nothing"

(***************************************************************************)
(* Jumps and pos, checked in SpecTests.                                    *)
(***************************************************************************)
\* the next step handles a jump instruction whose target, if the jump is
\* taken, is an address (not negative)
JumpCase ==
    /\ status = "ok"
    /\ Fetch(Machine).ok
    /\ NextInstruction.op \in {"JumpIfTrue", "JumpIfFalse"}
    /\ JumpTaken => Operand(NextInstruction.params[2]) >= 0

\* C23: one step of JumpIfTrue sets pos to the value of its second operand
\* exactly when its first operand is not 0, one step of JumpIfFalse exactly
\* when its first operand is 0; otherwise pos advances by 3.  Either way the
\* tape, the relative base and both queues are as before.
C23_Jumps ==
    [][(JumpCase /\ OneStep')
        => /\ status' = "ok"
           /\ (NextInstruction.op = "JumpIfTrue"
                    /\ Operand(NextInstruction.params[1]) /= 0)
                => pos' = Operand(NextInstruction.params[2])
           /\ (NextInstruction.op = "JumpIfTrue"
                    /\ Operand(NextInstruction.params[1]) = 0)
                => pos' = pos + 3
           /\ (NextInstruction.op = "JumpIfFalse"
                    /\ Operand(NextInstruction.params[1]) = 0)
                => pos' = Operand(NextInstruction.params[2])
           /\ (NextInstruction.op = "JumpIfFalse"
                    /\ Operand(NextInstruction.params[1]) /= 0)
                => pos' = pos + 3
           /\ UNCHANGED <<tape, relative_base, input, output>>]_vars

\* one step of 1006,7,4,99,104,1,99 has jumped to 4: cell 7 reads as 0
C23_Witness ==
    /\ program = ProgJump(1006, 7)
    /\ OneStep
    /\ steps = 1
    /\ outcome = "jump"
    /\ pos = 4
    /\ tape = program

\* the next step handles an instruction, decoded or kept by a pause
InstructionCase == status = "ok" /\ Fetch(Machine).ok

\* C24: one step that completes an instruction without taking a jump
\* advances pos by the number of operands plus 1: by 4 for Add, Multiply,
\* LessThan and Equals, by 2 for Input, Output and SetRelativeBase, by 3 for
\* a jump that is not taken; a storing step has stored at the address its
\* operand cell at the old pos names.  A step that pauses and a step that
\* decodes Halt leave pos as it is.
C24_Advance ==
    [][(InstructionCase /\ OneStep' /\ status' = "ok")
        => /\ NextInstruction.op \in {"Add", "Multiply", "LessThan", "Equals"}
                => /\ pos' = pos + 4
                   /\ tape'[TargetCell(Target) + 1]
                        = compute(NextInstruction, Machine).result.value
           /\ (NextInstruction.op = "Input" /\ input /= <<>>)
                => /\ pos' = pos + 2
                   /\ tape'[TargetCell(Target) + 1] = Head(input)
           /\ NextInstruction.op \in {"Output", "SetRelativeBase"}
                => pos' = pos + 2
           /\ (NextInstruction.op \in {"JumpIfTrue", "JumpIfFalse"} /\ ~JumpTaken)
                => pos' = pos + 3
           /\ (NextInstruction.op = "Input" /\ input = <<>>)
                => (pos' = pos /\ outcome' = "pause")
           /\ NextInstruction.op = "Break"
                => (pos' = pos /\ finished')]_vars

\* one step of 3,9,8,9,10,9,4,9,99,-1,8 has completed the Equals at 2
C24_Witness ==
    /\ program = ProgCompare
    /\ OneStep
    /\ outcome = "store"
    /\ Len(consumed) = 1
    /\ pos = 6

(***************************************************************************)
(* execute_n, checked in Spec.                                             *)
(***************************************************************************)
\* the fields of a machine record and whether it has panicked
FieldsOf(m) ==
    <<<<m.tape, m.tape_init, m.pos, m.current, m.input, m.output, m.finished,
        m.relative_base>>, m.status>>

\* the machine m at the start of its next call
AtCall(m) == [m EXCEPT !.outcome = "none", !.steps = 0]

\* C25: execute_n(n) makes at most n steps; it makes fewer only if its last
\* step paused, halted or panicked; it returns is_finished().  execute_n(0)
\* changes nothing.  For every a + b = n, the machine after execute_n(n) is
\* in the state execute_n(a) followed by execute_n(b) leaves it in.
C25_ExecuteN ==
    [][(status = "ok" /\ call' = "execute_n")
        => LET n == arg'[1]
           IN  /\ steps' <= n
               /\ steps' < n => outcome' \in {"pause", "halt", "panic"}
               /\ status' = "ok" => ret' = is_finished(Machine)'
               /\ n = 0 => UNCHANGED <<fields, status>>
               /\ \A a \in 0..n :
                    LET h == execute_n(Machine, a)
                    IN  (h.status = "ok" /\ InBounds(h))
                            => FieldsOf(execute_n(AtCall(h), n - a))
                                 = <<fields, status>>']_vars

\* execute_n(2) on the machine of 3,0,4,0,99 with input has made two steps:
\* the Input and the Output
C25_Witness ==
    /\ program = ProgEcho
    /\ call = "execute_n"
    /\ arg = <<2>>
    /\ steps = 2
    /\ outcome = "nothing"
    /\ Len(emitted) = 1
    /\ ~ret

(***************************************************************************)
(* Properties of SpecPending.                                              *)
(***************************************************************************)
\* the operand of the Input instruction kept by the pause
Kept == current[1].params[1]

\* C26: set() leaves the instruction kept by a pause as it is, whichever
\* cell it changes.  One step of the paused machine with input queued
\* executes that Input instruction and does not decode the cell at pos
\* again: it consumes the front of the queue and emits nothing, it takes the
\* operand cell and the mode kept by the pause, it reads the write address
\* from that operand cell as the tape is at the resume, and pos advances by
\* 2.
C26_KeptNotDecodedAgain ==
    [][/\ (status = "ok" /\ call' = "set" /\ status' = "ok")
            => current' = current
       /\ (status = "ok" /\ current /= None /\ input /= <<>> /\ OneStep'
                /\ Kept.mode \in {"PositionAt", "RelativeBy"}
                /\ TargetCell(Kept) >= 0)
            => /\ current[1].op = "Input"
               /\ consumed' = Append(consumed, Head(input))
               /\ input' = Tail(input)
               /\ emitted' = emitted
               /\ tape' = Written(tape, TargetCell(Kept), Head(input))
               /\ pos' = pos + 2
               /\ current' = None]_vars

\* the machine of 109,2,203,5,204,5,99 paused at 2; then set() made cell 2
\* an Output opcode in Position mode; the resumed step has still stored the
\* input at 5 + 2
C26_Witness ==
    /\ program = ProgRel
    /\ OneStep
    /\ before.paused
    /\ outcome = "store"
    /\ pos = 4
    /\ tape[3] = 4
    /\ Len(tape) = 8
    /\ tape[8] = consumed[1]
    /\ emitted = <<>>


\* ---------------------------------------------------------------------
\* The network controller of day 23 (src/day_23/src/main.rs).  The
\* program the computers run is the puzzle input, so what a computer
\* emits on a turn is the environment's choice; what the controller
\* supplies to a computer is recorded per NIC.
\* ---------------------------------------------------------------------

\* Network::new(filename, num): num
NumNics == 2
\* iterations of the loop of execute_till_condition
MaxRounds == 3
\* messages one computer emits on one turn
MaxOut == 2
\* messages the computers emit altogether
MaxSent == 2
\* the address of the NAT
NatAddress == 255

\* struct Message
Message(from, to, x, y) == [from |-> from, to |-> to, x |-> x, y |-> y]

\* the destinations a computer addresses: every NIC, the NAT, and one
\* address that is no NIC's (negative, so that the index wraps)
Destinations == (0 .. NumNics - 1) \cup {NatAddress, -1}

\* NIC::new: the computer is given the address as its first input
NIC_new(address) ==
    [address |-> address, input |-> <<>>, supplied |-> <<address>>]

\* the assertion of NIC::deliver
RightAddress(n, msg) == msg.to = n.address

\* NIC::deliver with the message put in front; not the program's behaviour
NIC_deliver_front(n, msg) == [n EXCEPT !.input = <<msg>> \o @]

\* NIC::deliver once its assertion has passed: push_back
NIC_deliver(n, msg) == [n EXCEPT !.input = Append(@, msg)]

\* what the while loop of NIC::execute supplies: x then y of each message
RECURSIVE Payload(_)
Payload(msgs) ==
    IF msgs = <<>> THEN <<>>
    ELSE <<Head(msgs).x, Head(msgs).y>> \o Payload(Tail(msgs))

\* NIC::execute that adds the -1 after the messages; not the program's
\* behaviour
NIC_execute_polling(n) ==
    IF Len(n.input) > 0
    THEN [n EXCEPT !.input = <<>>, !.supplied = @ \o Payload(n.input) \o <<-1>>]
    ELSE [n EXCEPT !.supplied = Append(@, -1)]

\* NIC::execute up to the call of computer.execute()
NIC_execute(n) ==
    IF Len(n.input) > 0
    THEN [n EXCEPT !.input = <<>>, !.supplied = @ \o Payload(n.input)]
    ELSE [n EXCEPT !.supplied = Append(@, -1)]

\* the loop over NIC::retrieve: every three outputs become one message
\* from the NIC's address
RECURSIVE Retrieved(_, _)
Retrieved(address, out) ==
    IF out = <<>> THEN <<>>
    ELSE <<Message(address, Head(out).to, Head(out).x, Head(out).y)>>
         \o Retrieved(address, Tail(out))

\* set_nat that stores the message as it came; not the program's behaviour
set_nat_keeping(msg) == msg

\* Network::set_nat
set_nat(msg) == [msg EXCEPT !.to = 0, !.from = NatAddress]

\* the idle decision that injects in every round without messages; not the
\* program's behaviour
Idle_eager(idle, msgs, holder) ==
    IF Len(msgs) = 0
    THEN [messages |-> <<holder>>, potentially_idle |-> TRUE]
    ELSE [messages |-> msgs, potentially_idle |-> FALSE]

\* the idle decision of execute_till_condition
Idle(idle, msgs, holder) ==
    IF idle /\ Len(msgs) = 0
    THEN [messages |-> <<holder>>, potentially_idle |-> idle]
    ELSE IF Len(msgs) = 0
    THEN [messages |-> msgs, potentially_idle |-> TRUE]
    ELSE [messages |-> msgs, potentially_idle |-> FALSE]

\* the closures main passes as condition: part A stops at the first
\* message for the NAT, part B at a NAT message it has seen before
Condition(msg) ==
    IF part = "A" THEN msg.to = NatAddress
    ELSE msg.from = NatAddress /\ msg \in seen

SeenAfter(msg) ==
    IF part = "B" /\ msg.from = NatAddress /\ msg \notin seen
    THEN {msg} ELSE seen

\* Network::new(filename, NumNics) and the start of execute_till_condition
NetworkNew ==
    /\ nics = [i \in 1 .. NumNics |-> NIC_new(i - 1)]
    /\ nat = Message(NatAddress, 0, -1, -1)
    /\ potentially_idle = FALSE
    /\ messages = <<>>
    /\ break_after_delivery = FALSE
    /\ seen = {}
    /\ part \in {"A", "B"}
    /\ nic = 1
    /\ at = "execute"
    /\ round = 1
    /\ sent = <<>>
    /\ handled = <<>>
    /\ turns = <<>>

InitNet == MachineInit({ProgEcho}, {<<>>}) /\ NetworkNew /\ PipelineOff

\* the values the computers put into their messages: numbered, so that no
\* two messages of a behaviour are equal
Emitted(dests) ==
    [k \in 1 .. Len(dests) |->
        [to |-> dests[k], x |-> 100 + Len(sent) + k, y |-> 200 + Len(sent) + k]]

\* one iteration of the for loop: nic.execute(), then the messages the
\* computer produced are collected; whole is false when the computer
\* stopped inside a message, which retrieve's expect turns into a panic
\* (the messages collected before that panic are lost with the loop, so the
\* panic is taken with none)
NicTurn(dests, whole) ==
    /\ at = "execute"
    /\ round <= MaxRounds
    /\ whole \/ dests = <<>>
    /\ Len(sent) + Len(dests) <= MaxSent
    /\ LET n == nics[nic]
           out == Retrieved(n.address, Emitted(dests))
       IN /\ nics' = [nics EXCEPT ![nic] = NIC_execute(n)]
          /\ messages' = messages \o out
          /\ sent' = sent \o [k \in 1 .. Len(out) |->
                                [msg |-> out[k], round |-> round]]
          /\ turns' = Append(turns, [nic |-> nic, round |-> round,
                                     pending |-> n.input])
          /\ IF ~whole THEN at' = "panic" /\ nic' = nic
             ELSE IF nic = NumNics THEN at' = "idle" /\ nic' = nic
             ELSE at' = "execute" /\ nic' = nic + 1
    /\ UNCHANGED <<nat, potentially_idle, break_after_delivery, seen, part,
                   round, handled>>
    /\ UNCHANGED <<fields, status, history, pair, pipeline>>

\* after the for loop: the idle decision
IdleCheck ==
    /\ at = "idle"
    /\ LET r == Idle(potentially_idle, messages, nat)
       IN /\ messages' = r.messages
          /\ potentially_idle' = r.potentially_idle
    /\ break_after_delivery' = FALSE
    /\ at' = "deliver"
    /\ UNCHANGED <<nics, nat, seen, part, nic, round, sent, handled, turns>>
    /\ UNCHANGED <<fields, status, history, pair, pipeline>>

\* one iteration of the delivery loop
Deliver ==
    /\ at = "deliver"
    /\ messages # <<>>
    /\ LET msg == Head(messages)
           idx == AsUsize(msg.to)
       IN /\ messages' = Tail(messages)
          /\ break_after_delivery' = (break_after_delivery \/ Condition(msg))
          /\ seen' = SeenAfter(msg)
          /\ handled' = Append(handled, msg)
          /\ IF msg.to = NatAddress
             THEN /\ nat' = set_nat(msg)
                  /\ UNCHANGED <<nics, at>>
             ELSE IF idx >= Len(nics) \/ ~RightAddress(nics[idx + 1], msg)
             THEN /\ at' = "panic"
                  /\ UNCHANGED <<nics, nat>>
             ELSE /\ nics' = [nics EXCEPT ![idx + 1] = NIC_deliver(@, msg)]
                  /\ UNCHANGED <<nat, at>>
    /\ UNCHANGED <<potentially_idle, part, nic, round, sent, turns>>
    /\ UNCHANGED <<fields, status, history, pair, pipeline>>

\* the delivery loop has run out of messages: leave the outer loop or
\* start its next iteration
EndRound ==
    /\ at = "deliver"
    /\ messages = <<>>
    /\ IF break_after_delivery
       THEN at' = "done" /\ UNCHANGED <<nic, round>>
       ELSE at' = "execute" /\ nic' = 1 /\ round' = round + 1
    /\ UNCHANGED <<nics, nat, potentially_idle, messages, break_after_delivery,
                   seen, part, sent, handled, turns>>
    /\ UNCHANGED <<fields, status, history, pair, pipeline>>

DestSeqs ==
    UNION {[1 .. k -> Destinations] : k \in 0 .. MaxOut}

NextNet ==
    \/ \E dests \in DestSeqs, whole \in BOOLEAN : NicTurn(dests, whole)
    \/ IdleCheck
    \/ Deliver
    \/ EndRound

SpecNet == InitNet /\ [][NextNet]_vars


\* ---------------------------------------------------------------------
\* C27..C30: the network controller
\* ---------------------------------------------------------------------

\* the messages of a sequence that a computer produced (not the NAT's)
RECURSIVE FromMachines(_)
FromMachines(msgs) ==
    IF msgs = <<>> THEN <<>>
    ELSE IF Head(msgs).from # NatAddress
    THEN <<Head(msgs)>> \o FromMachines(Tail(msgs))
    ELSE FromMachines(Tail(msgs))

Produced == [k \in 1 .. Len(sent) |-> sent[k].msg]

\* how often msg occurs in the sequence msgs
Occurrences(msg, msgs) == Cardinality({k \in 1 .. Len(msgs) : msgs[k] = msg})

\* every message retrieved so far is either waiting in messages or was
\* taken by the delivery loop, and in no case twice
OnceEach ==
    /\ at # "panic" => FromMachines(handled) \o FromMachines(messages) = Produced
    /\ \A k \in 1 .. Len(sent) :
           Occurrences(sent[k].msg, handled) + Occurrences(sent[k].msg, messages) <= 1
    /\ at \in {"execute", "done"} /\ nic = 1 => FromMachines(handled) = Produced

InRange(to) == to \in 0 .. NumNics - 1

\* the delivery loop is about to take a message
DeliverCase == at = "deliver" /\ messages # <<>>

\* C27: every message retrieved in a round is handled exactly once; a
\* message for 255 replaces the NAT holder, stored with to = 0 and
\* from = 255, and reaches no machine; any other message is appended to the
\* pending queue of the machine whose address is its destination, so the
\* assertion of deliver holds; a destination that is neither 255 nor one of
\* 0..N-1 is a fatal error
C27_Handling ==
    [][/\ OnceEach
       /\ OnceEach'
       /\ DeliverCase =>
            LET msg == Head(messages) IN
            /\ messages' = Tail(messages)
            /\ handled' = Append(handled, msg)
            /\ msg.to = NatAddress =>
                 /\ nat' = Message(NatAddress, 0, msg.x, msg.y)
                 /\ nics' = nics
                 /\ at' = "deliver"
            /\ InRange(msg.to) =>
                 /\ nics[msg.to + 1].address = msg.to
                 /\ nics' = [nics EXCEPT ![msg.to + 1].input = Append(@, msg)]
                 /\ nat' = nat
                 /\ at' = "deliver"
            /\ msg.to # NatAddress /\ ~InRange(msg.to) =>
                 /\ at' = "panic"
                 /\ nics' = nics
                 /\ nat' = nat]_vars

\* a message for 255 has replaced the NAT holder and a message of a
\* machine waits in the pending queue of the machine it names
C27_Witness ==
    /\ at = "deliver"
    /\ Len(handled) = 2
    /\ \E k \in 1 .. 2 : handled[k].to = NatAddress /\ nat = set_nat(handled[k])
    /\ \E k \in 1 .. 2 :
           /\ InRange(handled[k].to)
           /\ handled[k].from # NatAddress
           /\ handled[k] = nics[handled[k].to + 1].input[1]


\* the computers together produced no message in round r
QuietRound(r) == \A k \in 1 .. Len(sent) : sent[k].round # r

\* every machine has had its turn of the round and the idle decision is next
RoundCollected == at = "idle"

\* C28: in every round in which all machines together produced zero
\* messages the controller re-injects the NAT message, addressed to
\* machine 0
C28_EveryQuietRound ==
    [][RoundCollected /\ QuietRound(round) =>
         /\ messages' = <<nat>>
         /\ nat.to = 0]_vars


\* the round before this one was run and produced no message either
QuietBefore == round > 1 /\ QuietRound(round - 1)

\* C28 (amended): the controller re-injects the NAT message, addressed to
\* machine 0, in exactly the rounds in which all machines together produced
\* zero messages and had produced zero messages in the round before as
\* well; a first round without messages only marks the network as
\* potentially idle and delivers nothing
C28_SecondQuietRound ==
    [][RoundCollected =>
         /\ Len(messages) = 0 <=> QuietRound(round)
         /\ nat.to = 0 /\ nat.from = NatAddress
         /\ IF QuietRound(round) /\ QuietBefore
            THEN messages' = <<nat>>
            ELSE messages' = messages
         /\ potentially_idle' = QuietRound(round)
         /\ potentially_idle = QuietBefore]_vars

\* after two rounds without messages the holder, which an earlier message
\* for 255 had replaced, is what the delivery loop is about to take
C28_Witness ==
    /\ at = "deliver"
    /\ messages = <<nat>>
    /\ nat.x # -1
    /\ QuietRound(round)
    /\ QuietBefore


\* the round in which a computer produced msg
RoundOf(msg) == sent[CHOOSE k \in 1 .. Len(sent) : sent[k].msg = msg].round

\* the turns the NIC at index i has had, in order
TurnsOf(i) == SelectSeq(turns, LAMBDA t : t.nic = i)

\* the messages whose payload the turns ts put into the computer's input
\* queue, in the order in which they were put there
RECURSIVE Arrived(_)
Arrived(ts) ==
    IF ts = <<>> THEN <<>> ELSE Head(ts).pending \o Arrived(Tail(ts))

\* the values the turns ts put into the computer's input queue
RECURSIVE SuppliedBy(_)
SuppliedBy(ts) ==
    IF ts = <<>> THEN <<>>
    ELSE (IF Head(ts).pending = <<>> THEN <<-1>> ELSE Payload(Head(ts).pending))
         \o SuppliedBy(Tail(ts))

\* collection order: earlier rounds first, ascending sender address within
\* a round, emission order within a sender
CollectedBefore(a, b) ==
    \/ RoundOf(a) < RoundOf(b)
    \/ RoundOf(a) = RoundOf(b) /\ a.from < b.from
    \/ RoundOf(a) = RoundOf(b) /\ a.from = b.from /\ a.x < b.x

\* C29: a message a machine produced in round r enters its destination's
\* input queue no earlier than that destination's turn in round r + 1, also
\* when the destination's address is greater than the sender's; the
\* messages for one destination enter its input queue in collection order,
\* x before y
C29_NextRoundInOrder ==
    at # "off" =>
    \A i \in 1 .. NumNics :
        LET ts == TurnsOf(i)
            arrived == FromMachines(Arrived(ts))
        IN /\ nics[i].supplied = <<nics[i].address>> \o SuppliedBy(ts)
           /\ \A t \in 1 .. Len(ts) : \A k \in 1 .. Len(ts[t].pending) :
                  LET msg == ts[t].pending[k]
                  IN /\ msg.to = nics[i].address
                     /\ msg.from # NatAddress => RoundOf(msg) + 1 = ts[t].round
           /\ \A a \in 1 .. Len(arrived) : \A b \in a + 1 .. Len(arrived) :
                  CollectedBefore(arrived[a], arrived[b])

\* machine 1 has received, on its turn in round 2, the message machine 0
\* produced for it in round 1 and after it the one it produced for itself
C29_Witness ==
    \E t \in 1 .. Len(turns) :
        /\ turns[t].nic = 2
        /\ turns[t].round = 2
        /\ Len(turns[t].pending) = 2
        /\ turns[t].pending[1].from = 0
        /\ turns[t].pending[2].from = 1
        /\ nics[2].supplied = <<1, -1>> \o Payload(turns[t].pending)


\* a NIC has its turn in this step
TurnCase == at = "execute" /\ turns' # turns

\* C30: every machine's first input is its own address; afterwards, on each
\* of its turns, it is supplied exactly one -1 if and only if its pending
\* queue is empty, and otherwise x and y of every pending message in FIFO
\* order and no -1, after which its pending queue is empty; between turns
\* nothing is supplied
C30_AddressThenPoll ==
    [][/\ \A i \in 1 .. Len(nics) :
              Len(nics[i].supplied) >= 1 /\ nics[i].supplied[1] = nics[i].address
       /\ ~TurnCase => \A i \in 1 .. Len(nics) : nics'[i].supplied = nics[i].supplied
       /\ TurnCase =>
            LET before_turn == nics[nic]
                after_turn == nics'[nic]
                had == Len(before_turn.supplied)
                pending == before_turn.input
            IN /\ \A i \in 1 .. Len(nics) : i # nic => nics'[i] = nics[i]
               /\ after_turn.input = <<>>
               /\ SubSeq(after_turn.supplied, 1, had) = before_turn.supplied
               /\ IF pending = <<>>
                  THEN /\ Len(after_turn.supplied) = had + 1
                       /\ after_turn.supplied[had + 1] = -1
                  ELSE /\ Len(after_turn.supplied) = had + 2 * Len(pending)
                       /\ \A k \in 1 .. Len(pending) :
                              /\ after_turn.supplied[had + 2 * k - 1] = pending[k].x
                              /\ after_turn.supplied[had + 2 * k] = pending[k].y]_vars

\* a machine was given its address, then -1 on a turn with nothing pending,
\* then x and y of the one message pending on its next turn, then -1 again
C30_Witness ==
    \E i \in 1 .. Len(nics) : \E k \in 1 .. Len(sent) :
        /\ sent[k].msg.to = nics[i].address
        /\ nics[i].input = <<>>
        /\ nics[i].supplied =
               <<nics[i].address, -1, sent[k].msg.x, sent[k].msg.y, -1>>


\* ---------------------------------------------------------------------
\* C35..C40: the machine under any sequence of public calls
\* ---------------------------------------------------------------------

\* C35: in every state reached by new, supply_input, get_output, set,
\* execute, execute_n and reset, an instruction is pending only if it is an
\* Input instruction whose operand cell is pc + 1 and is_finished() is false
C35_PendingIsInputAtPc ==
    (status = "ok" /\ current # None) =>
        /\ current[1].op = "Input"
        /\ current[1].params[1].idx = pos + 1
        /\ ~is_finished(Machine)


\* the cell at pc decodes to Halt
HaltAtPc == decode(tape, pos).ok /\ decode(tape, pos).instruction.op = "Break"

\* C36: whenever is_finished() is true the cell at pc decodes to Halt, and
\* until reset() no call, set() included, makes the machine execute an
\* instruction: it stays finished at the same pc and consumes and emits
\* nothing
C36_FinishedMeansHaltAtPc ==
    [][(status = "ok" /\ is_finished(Machine))
        => /\ HaltAtPc
           /\ call' # "reset" =>
                /\ finished'
                /\ status' = "ok"
                /\ UNCHANGED <<pos, relative_base, consumed, emitted>>
                /\ HaltAtPc']_vars


\* C38: set(addr, value) succeeds for every addr >= 0: at or beyond the
\* end of memory it grows memory with zeros and stores the value, as a
\* store instruction does, and it changes nothing but that cell (and the
\* length)
C38_SetGrows ==
    [][(status = "ok" /\ call' = "set" /\ arg'[1] >= 0)
        => /\ status' = "ok"
           /\ tape' = Written(tape, arg'[1], arg'[2])
           /\ UNCHANGED <<tape_init, pos, current, input, output, finished,
                          relative_base>>]_vars


\* C40: reset() leaves the input queue and the output queue unchanged:
\* inputs not yet consumed and outputs not yet read are still there, in the
\* same order, after it
C40_ResetKeepsQueues ==
    [][(status = "ok" /\ call' = "reset")
        => /\ input' = input
           /\ output' = output
           /\ UNCHANGED <<supplied, consumed, emitted, returned>>]_vars

\* a reset of a machine that had an input waiting and an output unread
C40_Witness ==
    /\ call = "reset"
    /\ ~before.empty
    /\ input # <<>>
    /\ output # <<>>
    /\ pos = 0


\* supply_input called once for each value of vs, in order
RECURSIVE SupplyAll(_, _)
SupplyAll(m, vs) ==
    IF vs = <<>> THEN m ELSE SupplyAll(supply_input(m, Head(vs)), Tail(vs))

\* what a run on the inputs vs leaves to be observed; the records of what
\* the machine consumed and emitted before are not part of the machine
Observed(m, vs) ==
    LET r == execute(SupplyAll([m EXCEPT !.consumed = <<>>, !.emitted = <<>>], vs))
    IN  [output |-> r.output, tape |-> r.tape, finished |-> r.finished,
         status |-> r.status]

\* reset() has just been called on a machine that had halted with every
\* input consumed, and every output has been read
ResetAfterCleanHalt ==
    /\ status = "ok"
    /\ call = "reset"
    /\ before.finished
    /\ before.empty
    /\ output = <<>>

\* C37: after a run that ended in Halt with all inputs consumed and all
\* outputs read, reset() leaves a machine that on every input sequence
\* yields the outputs and the final memory a machine newly created from the
\* same program yields
C37_ResetIsNew ==
    ResetAfterCleanHalt =>
        \A vs \in InputSeqs : Observed(Machine, vs) = Observed(new(program), vs)


\* the idle decision of this step injects the NAT message
Injection == RoundCollected /\ messages' = <<nat>>

\* C39: whenever the controller injects the NAT message, every machine
\* started that round with an empty pending queue: every machine was
\* supplied -1 in that round and still no machine produced a message
C39_InjectionMeansAllPolled ==
    [][Injection =>
         /\ QuietRound(round)
         /\ \A i \in 1 .. NumNics : \E t \in 1 .. Len(turns) :
                /\ turns[t].nic = i
                /\ turns[t].round = round
                /\ turns[t].pending = <<>>
                /\ nics[i].supplied[Len(nics[i].supplied)] = -1]_vars


\* ---------------------------------------------------------------------
\* The interpreter of day 7 (src/day_07/src/main.rs) and its amplifier
\* pipelines.  This variant has one slot for input and one for output
\* instead of queues, a tape of fixed length, and no relative mode.  A
\* machine is a record of the fields of its Intcode, the status, and the
\* history of the values supplied to it, consumed and output by it.
\* ---------------------------------------------------------------------

\* steps the model follows one execute() for
AmpSteps == 10

\* Intcode::amplifier: the program every amplifier runs
amplifier ==
   <<
      3, 8, 1001, 8, 10, 8, 105, 1, 0, 0, 21, 42, 67, 88, 101, 114, 195, 276, 357, 438,
      99999, 3, 9, 101, 3, 9, 9, 1002, 9, 4, 9, 1001, 9, 5, 9, 102, 4, 9, 9, 4,
      9, 99, 3, 9, 1001, 9, 3, 9, 1002, 9, 2, 9, 101, 2, 9, 9, 102, 2, 9, 9,
      1001, 9, 5, 9, 4, 9, 99, 3, 9, 102, 4, 9, 9, 1001, 9, 3, 9, 102, 4, 9,
      9, 101, 4, 9, 9, 4, 9, 99, 3, 9, 101, 2, 9, 9, 1002, 9, 3, 9, 4, 9,
      99, 3, 9, 101, 4, 9, 9, 1002, 9, 5, 9, 4, 9, 99, 3, 9, 102, 2, 9, 9,
      4, 9, 3, 9, 1001, 9, 1, 9, 4, 9, 3, 9, 101, 1, 9, 9, 4, 9, 3, 9,
      1001, 9, 1, 9, 4, 9, 3, 9, 101, 1, 9, 9, 4, 9, 3, 9, 1002, 9, 2, 9,
      4, 9, 3, 9, 101, 1, 9, 9, 4, 9, 3, 9, 1002, 9, 2, 9, 4, 9, 3, 9,
      102, 2, 9, 9, 4, 9, 3, 9, 1002, 9, 2, 9, 4, 9, 99, 3, 9, 102, 2, 9,
      9, 4, 9, 3, 9, 1002, 9, 2, 9, 4, 9, 3, 9, 1001, 9, 1, 9, 4, 9, 3,
      9, 1002, 9, 2, 9, 4, 9, 3, 9, 1002, 9, 2, 9, 4, 9, 3, 9, 1001, 9, 2,
      9, 4, 9, 3, 9, 1001, 9, 2, 9, 4, 9, 3, 9, 1001, 9, 2, 9, 4, 9, 3,
      9, 1002, 9, 2, 9, 4, 9, 3, 9, 101, 1, 9, 9, 4, 9, 99, 3, 9, 102, 2,
      9, 9, 4, 9, 3, 9, 1002, 9, 2, 9, 4, 9, 3, 9, 1001, 9, 2, 9, 4, 9,
      3, 9, 102, 2, 9, 9, 4, 9, 3, 9, 1001, 9, 2, 9, 4, 9, 3, 9, 101, 2,
      9, 9, 4, 9, 3, 9, 1001, 9, 1, 9, 4, 9, 3, 9, 101, 1, 9, 9, 4, 9,
      3, 9, 101, 2, 9, 9, 4, 9, 3, 9, 1001, 9, 1, 9, 4, 9, 99, 3, 9, 102,
      2, 9, 9, 4, 9, 3, 9, 101, 1, 9, 9, 4, 9, 3, 9, 1001, 9, 1, 9, 4,
      9, 3, 9, 101, 1, 9, 9, 4, 9, 3, 9, 101, 1, 9, 9, 4, 9, 3, 9, 101,
      1, 9, 9, 4, 9, 3, 9, 1001, 9, 2, 9, 4, 9, 3, 9, 101, 2, 9, 9, 4,
      9, 3, 9, 1002, 9, 2, 9, 4, 9, 3, 9, 1001, 9, 1, 9, 4, 9, 99, 3, 9,
      1001, 9, 2, 9, 4, 9, 3, 9, 102, 2, 9, 9, 4, 9, 3, 9, 1002, 9, 2, 9,
      4, 9, 3, 9, 1002, 9, 2, 9, 4, 9, 3, 9, 1002, 9, 2, 9, 4, 9, 3, 9,
      1002, 9, 2, 9, 4, 9, 3, 9, 1002, 9, 2, 9, 4, 9, 3, 9, 1002, 9, 2, 9,
      4, 9, 3, 9, 101, 2, 9, 9, 4, 9, 3, 9, 101, 2, 9, 9, 4, 9, 99
   >>

\* the element of a set of one element
The(S) == CHOOSE x \in S : TRUE

\* indexing the tape's Vec with idx does not panic
amp_valid(tp, idx) == idx >= 0 /\ idx < Len(tp)

\* Intcode::new
amp_new(tp) ==
    [tape |-> tp, pos |-> 0, current |-> None, input |-> None, output |-> None,
     finished |-> FALSE, status |-> "ok", supplied |-> <<>>, consumed |-> <<>>,
     emitted |-> <<>>]

amp_Panicked(m) == [m EXCEPT !.status = "panic"]

\* Operation::num_params and the opcodes Intcode::decode knows
amp_OperationOf(code) == IF code = 9 THEN "Invalid" ELSE OperationOf(code)

\* Operation::decode: the mode is the parity of the digit
amp_ParameterOf(digit, idx) ==
    CASE Rem(digit, 2) = 0 -> [mode |-> "PositionAt", idx |-> idx]
      [] Rem(digit, 2) = 1 -> [mode |-> "ImmediateAt", idx |-> idx]
      [] OTHER -> [mode |-> "Invalid", idx |-> idx]

amp_Operation_decode(op, info, p) ==
    [i \in 1 .. num_params(op) |-> amp_ParameterOf(Div(info, 10 ^ (i - 1)), p + i)]

\* Intcode::decode; ok is FALSE where the source panics
amp_decode(m, p) ==
    IF ~amp_valid(m.tape, p)
    THEN [ok |-> FALSE, instruction |-> NoInstruction]
    ELSE LET opcode_full == m.tape[p + 1]
             op == amp_OperationOf(Rem(opcode_full, 100))
             params == amp_Operation_decode(op, Div(opcode_full, 100), p)
         IN  IF op = "Invalid" \/ \E i \in 1 .. num_params(op) : params[i].mode = "Invalid"
             THEN [ok |-> FALSE, instruction |-> NoInstruction]
             ELSE [ok |-> TRUE, instruction |-> [op |-> op, params |-> params]]

\* Intcode::get_parameter does not panic
amp_readable(m, param) ==
    /\ amp_valid(m.tape, param.idx)
    /\ param.mode = "PositionAt" => amp_valid(m.tape, AsUsize(m.tape[param.idx + 1]))

\* Intcode::get_parameter
amp_get_parameter(m, param) ==
    IF param.mode = "PositionAt"
    THEN m.tape[m.tape[param.idx + 1] + 1]
    ELSE m.tape[param.idx + 1]

\* Intcode::supply_input: the slot is overwritten
amp_supply_input(m, v) ==
    [m EXCEPT !.input = Some(v), !.supplied = Append(@, v)]

\* Intcode::get_output: a copy of the slot, which stays as it is
amp_get_output(m) == m.output

\* Instruction::compute; the result's kind is "Panic" where the source panics
amp_compute(instruction, m) ==
    LET op == instruction.op
        ps == instruction.params
        v(i) == amp_get_parameter(m, ps[i])
        last == ps[Len(ps)]
        stored(value) ==
            IF last.mode = "PositionAt"
            THEN [kind |-> "StoreAt", pos |-> last.idx, value |-> value, address |-> 0]
            ELSE [kind |-> "Panic", pos |-> 0, value |-> 0, address |-> 0]
        plain(kind) == [kind |-> kind, pos |-> 0, value |-> 0, address |-> 0]
        jump(a) == [kind |-> "JumpTo", pos |-> 0, value |-> 0, address |-> AsUsize(a)]
    IN  IF \E i \in 1 .. Len(ps) : ~amp_readable(m, ps[i])
        THEN [m |-> m, result |-> plain("Panic")]
        ELSE CASE op = "Add" -> [m |-> m, result |-> stored(v(1) + v(2))]
               [] op = "Multiply" -> [m |-> m, result |-> stored(v(1) * v(2))]
               [] op = "Input" ->
                    IF m.input = None
                    THEN [m |-> m, result |-> plain("Pause")]
                    ELSE [m |-> [m EXCEPT !.input = None,
                                          !.consumed = Append(@, m.input[1])],
                          result |-> stored(m.input[1])]
               [] op = "JumpIfTrue" ->
                    [m |-> m, result |-> IF v(1) # 0 THEN jump(v(2)) ELSE plain("Nothing")]
               [] op = "JumpIfFalse" ->
                    [m |-> m, result |-> IF v(1) = 0 THEN jump(v(2)) ELSE plain("Nothing")]
               [] op = "LessThan" ->
                    [m |-> m, result |-> stored(IF v(1) < v(2) THEN 1 ELSE 0)]
               [] op = "Equals" ->
                    [m |-> m, result |-> stored(IF v(1) = v(2) THEN 1 ELSE 0)]
               [] op = "Output" ->
                    [m |-> [m EXCEPT !.output = Some(v(1)), !.emitted = Append(@, v(1))],
                     result |-> plain("Nothing")]
               [] OTHER -> [m |-> m, result |-> plain("Panic")]

\* Intcode::store
amp_store(m, result) ==
    LET idx_target == AsUsize(m.tape[result.pos + 1])
    IN  IF amp_valid(m.tape, idx_target)
        THEN [m EXCEPT !.tape[idx_target + 1] = result.value]
        ELSE amp_Panicked(m)

\* Intcode::step
amp_step(m) ==
    LET d == IF m.current = None THEN amp_decode(m, m.pos)
             ELSE [ok |-> TRUE, instruction |-> m.current[1]]
        instruction == d.instruction
    IN  IF ~d.ok
        THEN [m |-> amp_Panicked(m), ret |-> FALSE]
        ELSE IF instruction.op = "Break"
        THEN [m |-> [m EXCEPT !.finished = TRUE], ret |-> FALSE]
        ELSE LET c == amp_compute(instruction, m)
                 next == advance(instruction.op, m.pos)
             IN  CASE c.result.kind = "Panic" ->
                        [m |-> amp_Panicked(c.m), ret |-> FALSE]
                   [] c.result.kind = "Pause" ->
                        [m |-> [c.m EXCEPT !.current = Some(instruction)], ret |-> FALSE]
                   [] c.result.kind = "JumpTo" ->
                        [m |-> [c.m EXCEPT !.pos = c.result.address, !.current = None],
                         ret |-> TRUE]
                   [] c.result.kind = "StoreAt" ->
                        LET s == amp_store(c.m, c.result)
                        IN  IF s.status = "panic"
                            THEN [m |-> s, ret |-> FALSE]
                            ELSE [m |-> [s EXCEPT !.pos = next, !.current = None],
                                  ret |-> TRUE]
                   [] OTHER ->
                        [m |-> [c.m EXCEPT !.pos = next, !.current = None], ret |-> TRUE]

\* the loop of Intcode::execute, followed for n steps; returned says whether
\* the last step returned false
RECURSIVE amp_Loop(_, _)
amp_Loop(m, n) ==
    IF n = 0
    THEN [m |-> m, returned |-> FALSE]
    ELSE The({IF r.ret THEN amp_Loop(r.m, n - 1) ELSE [m |-> r.m, returned |-> TRUE] :
                 r \in {amp_step(m)}})

\* Intcode::execute
amp_execute(m) == amp_Loop(m, AmpSteps)


\* amplifiers in a pipeline
NumAmps == 2

\* the phase settings main passes are permutations of 0..4 and of 5..9; the
\* routines are given every sequence of distinct phases of up to NumAmps
Phases == 0 .. 9

PhaseSeqs ==
    {ps \in UNION {[1 .. n -> Phases] : n \in 1 .. NumAmps} :
        \A i, j \in 1 .. Len(ps) : i # j => ps[i] # ps[j]}

\* the start of run_amplifiers or of run_amplifiers_loop
PipelineNew ==
    /\ routine \in {"run_amplifiers", "run_amplifiers_loop"}
    /\ amplifiers = <<>>
    /\ phase_settings \in PhaseSeqs
    /\ signal = 0
    /\ amp = 1
    /\ stage = IF routine = "run_amplifiers" THEN "forward" ELSE "prepare"
    /\ passes = 0
    /\ feeds = <<>>

InitAmps == MachineInit({ProgEcho}, {<<>>}) /\ NetworkOff /\ PipelineNew

\* what one iteration records: the amplifier, the pass, the value it was
\* given, how many values the amplifier had output before and has output
\* now, what get_output gives, and whether the amplifier has finished
Feeding(m, had) ==
    [amp |-> amp, pass |-> passes, value |-> signal, had |-> had,
     has |-> Len(m.emitted), output |-> amp_get_output(m), finished |-> m.finished]

\* run_amplifiers goes on without testing what the second execute returned;
\* not the program's behaviour
forward_abort_lenient(phased, m) ==
    phased.status = "panic" \/ m.status = "panic" \/ amp_get_output(m) = None

\* run_amplifiers panics: in a machine, because the amplifier did not
\* finish, or because it has no output
forward_abort(phased, m) ==
    \/ phased.status = "panic"
    \/ m.status = "panic"
    \/ ~m.finished
    \/ amp_get_output(m) = None

\* the while loop tested on the first amplifier; not the program's behaviour
loop_continues_first(amps, n) == ~amps[1].finished

\* the test of the while loop of run_amplifiers_loop
loop_continues(amps, n) == ~amps[n].finished

\* one iteration of the for loop of run_amplifiers: a new amplifier is given
\* its phase, runs, is given the signal and runs again; it must have
\* finished and have an output
Forward ==
    /\ stage = "forward"
    /\ amp <= Len(phase_settings)
    /\ \E phased \in {amp_execute(amp_supply_input(amp_new(amplifier), phase_settings[amp]))} :
       \E ran \in {amp_execute(amp_supply_input(phased.m, signal))} :
       \E m \in {ran.m} :
           /\ phased.returned
           /\ ran.returned
           /\ amplifiers' = Append(amplifiers, m)
           /\ feeds' = Append(feeds, Feeding(m, 0))
           /\ IF forward_abort(phased.m, m)
              THEN stage' = "panic" /\ UNCHANGED <<signal, amp>>
              ELSE /\ signal' = amp_get_output(m)[1]
                   /\ amp' = amp + 1
                   /\ stage' = stage
    /\ UNCHANGED <<routine, phase_settings, passes>>
    /\ UNCHANGED <<fields, status, history, pair, network>>

\* run_amplifiers returns current
ForwardReturn ==
    /\ stage = "forward"
    /\ amp > Len(phase_settings)
    /\ stage' = "done"
    /\ UNCHANGED <<routine, amplifiers, phase_settings, signal, amp, passes, feeds>>
    /\ UNCHANGED <<fields, status, history, pair, network>>

\* one iteration of the first loop of run_amplifiers_loop
Prepare ==
    /\ stage = "prepare"
    /\ amp <= Len(phase_settings)
    /\ \E phased \in {amp_execute(amp_supply_input(amp_new(amplifier), phase_settings[amp]))} :
           /\ phased.returned
           /\ amplifiers' = Append(amplifiers, phased.m)
           /\ IF phased.m.status = "panic"
              THEN stage' = "panic" /\ amp' = amp
              ELSE stage' = stage /\ amp' = amp + 1
    /\ UNCHANGED <<routine, phase_settings, signal, passes, feeds>>
    /\ UNCHANGED <<fields, status, history, pair, network>>

\* the for loops are through: the test of the while loop comes next
AtWhile == stage \in {"prepare", "pass"} /\ amp > Len(phase_settings)

\* the while loop's test finds the last amplifier not finished
BeginPass ==
    /\ AtWhile
    /\ loop_continues(amplifiers, Len(phase_settings))
    /\ stage' = "pass"
    /\ amp' = 1
    /\ passes' = passes + 1
    /\ UNCHANGED <<routine, amplifiers, phase_settings, signal, feeds>>
    /\ UNCHANGED <<fields, status, history, pair, network>>

\* one iteration of the inner for loop of run_amplifiers_loop
Feed ==
    /\ stage = "pass"
    /\ amp <= Len(phase_settings)
    /\ \E ran \in {amp_execute(amp_supply_input(amplifiers[amp], signal))} :
       \E m \in {ran.m} :
           /\ ran.returned
           /\ amplifiers' = [amplifiers EXCEPT ![amp] = m]
           /\ feeds' = Append(feeds, Feeding(m, Len(amplifiers[amp].emitted)))
           /\ IF m.status = "panic" \/ amp_get_output(m) = None
              THEN stage' = "panic" /\ UNCHANGED <<signal, amp>>
              ELSE /\ signal' = amp_get_output(m)[1]
                   /\ amp' = amp + 1
                   /\ stage' = stage
    /\ UNCHANGED <<routine, phase_settings, passes>>
    /\ UNCHANGED <<fields, status, history, pair, network>>

\* the while loop's test finds the last amplifier finished:
\* run_amplifiers_loop returns current
LoopReturn ==
    /\ AtWhile
    /\ ~loop_continues(amplifiers, Len(phase_settings))
    /\ stage' = "done"
    /\ UNCHANGED <<routine, amplifiers, phase_settings, signal, amp, passes, feeds>>
    /\ UNCHANGED <<fields, status, history, pair, network>>

NextAmps ==
    \/ Forward
    \/ ForwardReturn
    \/ Prepare
    \/ BeginPass
    \/ Feed
    \/ LoopReturn

SpecAmps == InitAmps /\ [][NextAmps]_vars


\* ---------------------------------------------------------------------
\* C31..C34: the amplifier pipelines and the input slot of day 7
\* ---------------------------------------------------------------------

\* the last value m has output
LastOutput(m) == m.emitted[Len(m.emitted)]

\* the signal the k-th amplifier of run_amplifiers is given
SignalFor(k) == IF k = 1 THEN 0 ELSE LastOutput(amplifiers[k - 1])

\* the k-th amplifier of run_amplifiers passed the tests of its iteration
Passed(k) == k < Len(amplifiers) \/ stage # "panic"

\* C31: in the feed-forward pipeline every amplifier is a fresh machine
\* that receives its phase as first input and then one signal input, 0 for
\* the first amplifier and the previous amplifier's output for every other;
\* the result is the last amplifier's output; the run aborts if an
\* amplifier has not halted after its signal input or has no output
C31_FeedForward ==
    routine = "run_amplifiers" =>
        /\ \A k \in 1 .. Len(amplifiers) :
               LET m == amplifiers[k]
               IN  /\ m.supplied = <<phase_settings[k], SignalFor(k)>>
                   /\ m.consumed = m.supplied
                   /\ Passed(k) <=> (m.status = "ok" /\ m.finished /\ m.emitted # <<>>)
                   /\ Passed(k) => amp_get_output(m) = Some(LastOutput(m))
        /\ stage = "forward" =>
               /\ amp = Len(amplifiers) + 1
               /\ signal = SignalFor(amp)
        /\ stage = "done" =>
               /\ Len(amplifiers) = Len(phase_settings)
               /\ signal = LastOutput(amplifiers[Len(amplifiers)])
        /\ stage = "panic" => amplifiers # <<>>

\* run_amplifiers has returned the output of the second of two amplifiers
C31_Witness ==
    /\ routine = "run_amplifiers"
    /\ stage = "done"
    /\ Len(amplifiers) = 2
    /\ amplifiers[2].supplied = <<phase_settings[2], LastOutput(amplifiers[1])>>
    /\ signal = LastOutput(amplifiers[2])
    /\ signal # 0


\* the amplifiers of the pipeline
NumberOfAmps == Len(phase_settings)

\* the last amplifier had finished when pass p ended
FinishedAfter(p) == feeds[p * NumberOfAmps].finished

\* C32: the feedback loop runs whole passes over all machines, in order, as
\* long as the last machine has not halted; it stops after the first pass
\* at whose end the last machine is halted and returns the value most
\* recently output by the last machine
C32_FeedbackPasses ==
    (routine = "run_amplifiers_loop" /\ stage \in {"pass", "done"}) =>
        /\ \A j \in 1 .. Len(feeds) :
               /\ feeds[j].amp = ((j - 1) % NumberOfAmps) + 1
               /\ feeds[j].pass = ((j - 1) \div NumberOfAmps) + 1
        /\ \A p \in 1 .. passes - 1 : ~FinishedAfter(p)
        /\ stage = "pass" => Len(feeds) = (passes - 1) * NumberOfAmps + amp - 1
        /\ stage = "done" =>
               /\ passes >= 1
               /\ Len(feeds) = passes * NumberOfAmps
               /\ FinishedAfter(passes)
               /\ amplifiers[NumberOfAmps].finished
               /\ signal = LastOutput(amplifiers[NumberOfAmps])

\* the loop has returned after more than one pass over two amplifiers of
\* which the first had finished a pass earlier
C32_Witness ==
    /\ routine = "run_amplifiers_loop"
    /\ stage = "done"
    /\ NumberOfAmps = 2
    /\ passes > 1
    /\ feeds[1].finished
    /\ signal = LastOutput(amplifiers[2])


\* the value the j-th feeding of the loop should pass in: what the feeding
\* before it made its amplifier output, or 0 at the start
PassedOn(j) == IF j = 1 THEN 0 ELSE feeds[j - 1].output[1]

\* the amplifier of the j-th feeding output a value during that feeding
OutputDuring(j) == feeds[j].has > feeds[j].had

MaxSlotCalls == 4

\* in a; out a; in b; out b; halt; a; b
ProgSlot == <<3, 9, 4, 9, 3, 10, 4, 10, 99, 0, 0>>

SlotPrograms == {ProgEcho, ProgSlot}

InitSlot ==
    /\ MachineInit({ProgEcho}, {<<>>})
    /\ NetworkOff
    /\ routine = "caller"
    /\ \E tp \in SlotPrograms : amplifiers = <<amp_new(tp)>>
    /\ phase_settings = <<>>
    /\ signal = 0
    /\ amp = 1
    /\ stage = "caller"
    /\ passes = 0
    /\ feeds = <<>>

\* the caller's call is recorded
SlotCalled(c, a) ==
    /\ amplifiers[1].status = "ok"
    /\ Len(feeds) < MaxSlotCalls
    /\ feeds' = Append(feeds, [call |-> c, value |-> a])
    /\ UNCHANGED <<routine, phase_settings, signal, amp, stage, passes>>
    /\ UNCHANGED <<fields, status, history, pair, network>>

SlotSupply(v) ==
    /\ stage = "caller"
    /\ amplifiers' = <<amp_supply_input(amplifiers[1], v)>>
    /\ SlotCalled("supply_input", v)

SlotExecute ==
    /\ stage = "caller"
    /\ \E ran \in {amp_execute(amplifiers[1])} :
           /\ ran.returned
           /\ amplifiers' = <<ran.m>>
    /\ SlotCalled("execute", 0)

NextSlot ==
    \/ \E v \in InputVals : SlotSupply(v)
    \/ SlotExecute

SpecSlot == InitSlot /\ [][NextSlot]_vars

\* C34: in the interpreters of day 7, day 9 and day 11, two values passed
\* to supply_input by consecutive calls with no execution in between are
\* both consumed by later Input instructions, in the order supplied:
\* supply_input never discards a value that has not been consumed, so what
\* was consumed followed by what still waits is what was supplied
C34_SupplyKeepsAll ==
    (routine = "caller" /\ amplifiers[1].status = "ok") =>
        amplifiers[1].consumed \o amplifiers[1].input = amplifiers[1].supplied

=============================================================================
